---- MODULE Spec2Model ----
(***************************************************************************)
(* A model of the analytics tool: the TrendDetector and RealTimeAnalyzer    *)
(* of analyzer.py, the DataStorage tables of data_storage.py and the        *)
(* stream workers of RealTimeDataCollector in data_collector.py.            *)
(*                                                                          *)
(* Conventions.                                                             *)
(*  - A Python str that the code inspects character by character (a         *)
(*    hashtag, a token of a text) is a sequence of one-character strings.   *)
(*  - A text is the sequence of its whitespace-separated tokens, i.e. what  *)
(*    text.split() returns.                                                 *)
(*  - A Python dict is a TLA+ function whose DOMAIN is the set of keys.     *)
(*  - A nullable SQL value is <<>> (NULL) or <<v>>.                         *)
(*  - Engagement scores are kept in hundredths, so that the factors 1.5    *)
(*    and 0.01 stay integers.                                               *)
(***************************************************************************)
EXTENDS Integers, Sequences, FiniteSets, TLC

VARIABLES
    \* ---- TrendDetector (analyzer.py) ----
    now,                 \* time.time(), in seconds
    hashtag_counts,      \* Counter: normalized hashtag -> live count
    count_keys,          \* insertion order of the keys of hashtag_counts
    hashtag_timestamps,  \* dict: normalized hashtag -> list of timestamps
    lock,                \* TrendDetector.lock: <<>> when free, <<t>> when thread t holds it
    added,               \* history: normalized hashtag -> timestamps passed to add_hashtag
    tpc,                 \* position of each thread that calls into the TrendDetector
    tlocal,              \* locals of those threads
    observed,            \* what the last get_trending_hashtags saw and returned
    \* ---- DataStorage (data_storage.py): a table is the sequence of its rows in
    \* rowid order; the AUTOINCREMENT id itself is the position, not a field ----
    posts,               \* table posts
    realtime_posts,      \* table realtime_posts
    user_preferences,    \* table user_preferences
    db_time,             \* CURRENT_TIMESTAMP of the database
    rt_last,             \* history: post_id -> the last direct store_realtime_post call for it
    posts_last,          \* history: post_id -> the last store_posts call that stored it
    pref_calls,          \* history: triple -> completed update_user_preference calls
    ppc,                 \* position of each thread inside update_user_preference
    plocal,              \* locals of those threads
    \* ---- RealTimeDataCollector (data_collector.py) ----
    running,             \* RealTimeDataCollector.running
    wpc,                 \* position of each stream worker thread
    searched,            \* history: the keywords each worker handled in its current cycle
    \* ---- RealTimeAnalyzer (analyzer.py) ----
    alert_callbacks,     \* RealTimeAnalyzer.alert_callbacks
    alerts,              \* history: the callback invocations of the last process_realtime_post
    outcome,             \* how the last process_realtime_post ended, and with what
    \* ---- TwitterAPIDataCollector, YouTubeAPIDataCollector (data_collector.py) ----
    twitter_api,         \* the TwitterAPIDataCollector: config, use_api, client
    youtube_api,         \* the YouTubeAPIDataCollector: config, use_api
    fetched,             \* how the last fetch operation ended, and with what
    \* ---- RecommendationEngine, PersonalAnalytics (recommendation_engine.py) ----
    personal_viewing,    \* table personal_viewing, rows in rowid order
    reply,               \* how the last recommendation or insight request ended
    \* ---- The web server (main.py) ----
    dashboard_data,      \* the module-level dict dashboard_data
    dashboard_writers,   \* history: the functions that have assigned a field of dashboard_data
    emitted,             \* the last socket event emitted, and by which function
    dpc,                 \* position of the update_dashboard_data thread
    wlast,               \* history: how each stream worker's last keyword pass ended
    http,                \* the last HTTP request and what the client got back
    config_file,         \* config.json: <<>> when missing, else <<document>>
    \* ---- SocialMediaAnalyzer (analyzer.py): calls of its pure helpers ----
    score_data,          \* the list handed to _calculate_percentiles
    percentiles,         \* whether it has been called, and what it returned
    velocity_posts,      \* the posts handed to _calculate_engagement_velocity
    velocity_platform,   \* its platform argument
    velocity,            \* whether it has been called, and what it returned
    \* ---- RealTimeDashboard and its SocialMediaVisualizer (visualizer.py) ----
    data_points,         \* platform key -> data points, oldest first
    twitter_data_buffer, \* the visualizer's buffers
    reddit_data_buffer,
    rtd_now,             \* the clock datetime.now() reads
    update_call,         \* the last update_with_post call and how it ended
    \* ---- SocialMediaAnalyzer (analyzer.py): calls of its public methods ----
    insights_twitter,    \* the twitter_data handed to generate_insights
    insights_youtube,    \* its youtube_data
    insights_call,       \* whether it has been called, and what it returned
    analysis_data,       \* the platform_data handed to analyze_engagement
    analysis,            \* whether it has been called, and how it ended
    \* ---- DataStorage.store_realtime_post called from threads ----
    store_lock,          \* DataStorage.lock: <<>> when free, else <<holder>>
    spc,                 \* caller -> where it is in store_realtime_post
    \* ---- RealTimeDataCollector: the threads start_streaming has started ----
    stream_threads,      \* in order of their start: kind and place in the loop
    \* ---- ReportGenerator and the calls it makes ----
    trending_call,       \* the last DataStorage.get_trending_hashtags call
    collect_call,        \* the last collect_platform_data call and the store_posts after it
    report_call          \* the last generate_platform_report call

trendVars == <<now, hashtag_counts, count_keys, hashtag_timestamps, lock, added,
               tpc, tlocal, observed>>

storeVars == <<posts, realtime_posts, user_preferences, db_time, rt_last, posts_last,
               pref_calls, ppc, plocal>>

streamVars == <<running, wpc, searched>>

alertVars == <<alert_callbacks, alerts, outcome>>

collectVars == <<twitter_api, youtube_api, fetched>>

\* The parts of the program outside the detector, the storage, the stream
\* workers and the real-time analyzer.
recoVars == <<personal_viewing, reply>>

webVars == <<dashboard_data, dashboard_writers, emitted, dpc, wlast, http, config_file>>

\* The variables of the web server and of the pure computations.
calcVars == <<score_data, percentiles, velocity_posts, velocity_platform, velocity>>

rtdVars == <<data_points, twitter_data_buffer, reddit_data_buffer, rtd_now, update_call>>

\* The objects that stand beside the server.
analysisVars == <<insights_twitter, insights_youtube, insights_call, analysis_data,
                  analysis>>

srpVars == <<store_lock, spc>>

reportVars == <<trending_call, collect_call, report_call>>

sideVars == <<rtdVars, analysisVars, srpVars, stream_threads, reportVars>>

restVars == <<webVars, calcVars, sideVars>>

extVars == <<collectVars, recoVars, restVars>>

coreVars == <<trendVars, storeVars, streamVars, alertVars>>

vars == <<trendVars, storeVars, streamVars, alertVars, extVars>>

(***************************************************************************)
(* Generic helpers                                                          *)
(***************************************************************************)
Range(s) == {s[i] : i \in DOMAIN s}

\* d[k] = v for a dict d, adding the key when it is missing.
DictSet(d, k, v) == [x \in (DOMAIN d) \cup {k} |-> IF x = k THEN v ELSE d[x]]

\* d.get(k, default)
DictGet(d, k, default) == IF k \in DOMAIN d THEN d[k] ELSE default

EmptyDict == [x \in {} |-> 0]

\* Python's s[:limit], negative limits included.
SlicePrefix(s, limit) ==
    LET n == IF limit >= 0 THEN (IF limit < Len(s) THEN limit ELSE Len(s))
             ELSE (IF Len(s) + limit > 0 THEN Len(s) + limit ELSE 0)
    IN  SubSeq(s, 1, n)

(***************************************************************************)
(* Strings as character sequences                                           *)
(***************************************************************************)
\* str.lower() on the characters the model uses.
LowerChar(c) == CASE c = "A" -> "a"
                  [] c = "B" -> "b"
                  [] OTHER -> c

Lower(s) == [i \in DOMAIN s |-> LowerChar(s[i])]

RECURSIVE LStripHash(_)
\* str.lstrip('#')
LStripHash(s) == IF s # <<>> /\ Head(s) = "#" THEN LStripHash(Tail(s)) ELSE s

\* str.startswith('#')
StartsWithHash(s) == s # <<>> /\ Head(s) = "#"

\* hashtag.lower().lstrip('#')
NormalizeHashtag(hashtag) == LStripHash(Lower(hashtag))

(***************************************************************************)
(* DataStorage: rows and tables                                             *)
(***************************************************************************)
Null == <<>>
Some(v) == <<v>>

\* A Python value is truthy: a non-empty str or list.
Truthy(v) == v # <<>>

\* str.lower() of a platform name.
PlatformLower(p) == CASE p = "Twitter" -> "twitter"
                      [] p = "YouTube" -> "youtube"
                      [] p = "Reddit" -> "reddit"
                      [] p = "Instagram" -> "instagram"
                      [] OTHER -> p

\* json.dumps of a list of strings: the JSON text, named by the list it encodes.
JsonDumps(list) == [json |-> list]

\* The tokens of a list that start with '#'.
HashTokens(tokens) == SelectSeq(tokens, StartsWithHash)

\* The hashtags of a real-time post, as store_realtime_post and
\* analyze_realtime_post both extract them.
ExtractHashtags(platform, post) ==
    IF platform = "twitter" /\ "text" \in DOMAIN post THEN HashTokens(post["text"])
    ELSE IF platform = "youtube" /\ "tags" \in DOMAIN post THEN HashTokens(post["tags"])
    ELSE IF "hashtags" \in DOMAIN post THEN post["hashtags"]
    ELSE <<>>

\* The real-time engagement score, in hundredths.
RealtimeScore(platform, post) ==
    IF platform = "twitter"
    THEN 100 * DictGet(post, "likes", 0) + 200 * DictGet(post, "retweets", 0)
         + 150 * DictGet(post, "replies", 0) + 150 * DictGet(post, "quotes", 0)
    ELSE IF platform = "youtube"
    THEN DictGet(post, "view_count", 0) + 100 * DictGet(post, "like_count", 0)
         + 150 * DictGet(post, "comment_count", 0)
    ELSE 0

\* post.get('text') or post.get('title') or post.get('body', '')
RealtimeContent(post) ==
    IF Truthy(DictGet(post, "text", <<>>)) THEN post["text"]
    ELSE IF Truthy(DictGet(post, "title", <<>>)) THEN post["title"]
    ELSE DictGet(post, "body", <<>>)

\* The values store_realtime_post binds to its INSERT; clock is datetime.now().
RealtimeRow(platform_in, post, clock) ==
    LET platform == PlatformLower(platform_in)
        hashtags == ExtractHashtags(platform, post)
    IN  [platform |-> platform,
         post_id |-> DictGet(post, "post_id", <<"realtime", clock>>),
         content |-> RealtimeContent(post),
         timestamp |-> DictGet(post, "timestamp", <<"iso", clock>>),
         engagement_score |-> RealtimeScore(platform, post),
         hashtags |-> IF Truthy(hashtags) THEN Some(JsonDumps(hashtags)) ELSE Null]

\* The positions of the rows with this post_id.
RowsWithPostId(table, post_id) == {i \in DOMAIN table : table[i].post_id = post_id}

\* INSERT OR IGNORE: a row whose post_id is present is dropped.
InsertOrIgnore(table, row) ==
    IF RowsWithPostId(table, row.post_id) # {} THEN table ELSE Append(table, row)

\* A plain INSERT into a table without the UNIQUE constraint.
InsertAlways(table, row) == Append(table, row)

\* INSERT OR REPLACE on a table whose post_id is UNIQUE: the row in conflict is
\* deleted and the new row gets a fresh rowid.
InsertOrReplace(table, row) ==
    LET Other(r) == r.post_id # row.post_id
    IN  Append(SelectSeq(table, Other), row)

\* Python's None as a post_id.
NonePy == <<>>

\* post_id TEXT UNIQUE NOT NULL, platform TEXT NOT NULL
ViolatesNotNull(row) == row.post_id = NonePy

\* The whole of store_realtime_post: the row is built, and under self.lock it is
\* inserted and committed; an sqlite3.Error is caught and nothing is stored.
StoreRealtimePost(table, platform_in, post, clock) ==
    LET row == RealtimeRow(platform_in, post, clock)
    IN  IF ViolatesNotNull(row) THEN table ELSE InsertOrReplace(table, row)

\* The batch engagement score of store_posts, in hundredths.
BatchScore(platform, post) ==
    IF PlatformLower(platform) = "twitter"
    THEN 100 * DictGet(post, "likes", 0) + 200 * DictGet(post, "retweets", 0)
         + 100 * DictGet(post, "replies", 0)
    ELSE IF PlatformLower(platform) = "youtube"
    THEN DictGet(post, "views", 0) + 100 * DictGet(post, "likes", 0)
         + 150 * DictGet(post, "comments", 0)
    ELSE 0

\* post['post_id'] or post['timestamp'] raises KeyError.
RaisesKeyError(post) == "post_id" \notin DOMAIN post \/ "timestamp" \notin DOMAIN post

\* The values store_posts binds to its INSERT for one post.
PostsRow(platform, identifier, post) ==
    LET twitter == PlatformLower(platform) = "twitter"
    IN  [platform |-> platform,
         post_id |-> post["post_id"],
         identifier |-> identifier,
         content |-> IF Truthy(DictGet(post, "text", <<>>)) THEN Some(post["text"])
                     ELSE IF "title" \in DOMAIN post THEN Some(post["title"])
                     ELSE Null,
         timestamp |-> post["timestamp"],
         likes |-> DictGet(post, "likes", 0),
         shares |-> IF twitter THEN DictGet(post, "retweets", 0)
                    ELSE DictGet(post, "upvotes", 0),
         comments |-> IF twitter THEN DictGet(post, "replies", 0)
                      ELSE DictGet(post, "comments", 0),
         engagement_score |-> BatchScore(platform, post),
         hashtags |-> IF Truthy(DictGet(post, "hashtags", <<>>))
                      THEN Some(JsonDumps(post["hashtags"])) ELSE Null,
         location |-> IF "location" \in DOMAIN post THEN Some(post["location"]) ELSE Null]

RECURSIVE StorePostsLoop(_, _, _, _)
\* The for loop of store_posts from post number i on.  An IntegrityError skips
\* the post; a KeyError leaves the loop and the method without a commit.
StorePostsLoop(state, platform, identifier, rest) ==
    IF rest = <<>> \/ state.raised THEN state
    ELSE LET post == Head(rest)
         IN  IF RaisesKeyError(post)
             THEN [state EXCEPT !.raised = TRUE]
             ELSE LET row == PostsRow(platform, identifier, post)
                  IN  StorePostsLoop(
                          IF ViolatesNotNull(row) THEN state
                          ELSE [state EXCEPT !.table = InsertOrReplace(@, row),
                                             !.stored = Append(@, post)],
                          platform, identifier, Tail(rest))

\* The whole of store_posts: the table after it, the posts it stored, and whether
\* it raised.  Without the commit the connection is dropped and rolls back.
StorePosts(table, platform, identifier, batch) ==
    LET end == StorePostsLoop([table |-> table, stored |-> <<>>, raised |-> FALSE],
                              platform, identifier, batch)
    IN  IF end.raised THEN [table |-> table, stored |-> <<>>, raised |-> TRUE] ELSE end

\* The positions of the rows of user_preferences that a WHERE on the whole
\* triple matches.
MatchingPreferences(table, triple) ==
    {i \in DOMAIN table : /\ table[i].user_id = triple.user_id
                          /\ table[i].preference_type = triple.preference_type
                          /\ table[i].preference_value = triple.preference_value}

\* A WHERE that forgets the value: user_id = ? AND preference_type = ?.
MatchingUserAndType(table, triple) ==
    {i \in DOMAIN table : /\ table[i].user_id = triple.user_id
                          /\ table[i].preference_type = triple.preference_type}

\* The WHERE clause of the SELECT in update_user_preference.
PreferenceWhere(table, triple) == MatchingPreferences(table, triple)

\* SELECT id, frequency ...; fetchone(): <<>> for None, else the first row found
\* (the one with the least rowid).
SelectPreference(table, triple) ==
    LET found == PreferenceWhere(table, triple)
    IN  IF found = {} THEN <<>>
        ELSE LET first == CHOOSE i \in found : \A j \in found : i <= j
             IN  <<[id |-> first, frequency |-> table[first].frequency]>>

\* The UPDATE or the INSERT of update_user_preference, and the commit.
WritePreference(table, result, triple, timestamp) ==
    IF result # <<>>
    THEN [table EXCEPT ![result[1].id] =
              [@ EXCEPT !.frequency = result[1].frequency + 1, !.last_used = timestamp]]
    ELSE Append(table, [user_id |-> triple.user_id,
                        preference_type |-> triple.preference_type,
                        preference_value |-> triple.preference_value,
                        frequency |-> 1,
                        last_used |-> timestamp])

\* The whole of update_user_preference, run without interruption.
UpdateUserPreference(table, triple, timestamp) ==
    WritePreference(table, SelectPreference(table, triple), triple, timestamp)

(***************************************************************************)
(* TrendDetector                                                            *)
(***************************************************************************)
time_window_minutes == 10
time_window == time_window_minutes * 60
trend_threshold == 5
DefaultLimit == 10

\* Spellings of two hashtags, "a" and "b", as callers may pass them.
RawHashtags == { <<"#", "A">>, <<"#", "#", "a">>, <<"B">> }
Hashtags == { NormalizeHashtag(h) : h \in RawHashtags }

MaxAdds == 11          \* add_hashtag calls in one behaviour
MaxLimit == 1          \* limits tried besides the default

\* The instants the clock shows: a mention made at 0 is exactly 600 seconds old at
\* 600 and 601 seconds old at 601.
TimePoints == {0, time_window, time_window + 1}

RECURSIVE SumOver(_, _)
SumOver(f, S) == IF S = {} THEN 0
                 ELSE LET x == CHOOSE y \in S : TRUE
                      IN  f[x] + SumOver(f, S \ {x})

\* How often add_hashtag was called for a normalized hashtag.
AddedCount(h) == SumOver(added[h], TimePoints)

TotalAdded == SumOver([h \in DOMAIN added |-> AddedCount(h)], DOMAIN added)

\* _cleanup_old_entries with the window closed one second early.
ValidTimestampsStrict(timestamps, current_time) ==
    LET Keep(ts) == current_time - ts < time_window
    IN  SelectSeq(timestamps, Keep)

\* The list comprehension of _cleanup_old_entries.
ValidTimestamps(timestamps, current_time) ==
    LET Keep(ts) == current_time - ts <= time_window
    IN  SelectSeq(timestamps, Keep)

\* The state of the detector as one record, so that the sequential steps compose.
DetectorState == [counts |-> hashtag_counts, keys |-> count_keys,
                  stamps |-> hashtag_timestamps]

\* self.hashtag_counts[normalized_hashtag] += 1
IncrementCount(d, h) ==
    [d EXCEPT !.counts = DictSet(d.counts, h, DictGet(d.counts, h, 0) + 1),
              !.keys = IF h \in DOMAIN d.counts THEN d.keys ELSE Append(d.keys, h)]

\* if normalized_hashtag not in self.hashtag_timestamps: ... = []; ....append(timestamp)
AppendTimestamp(d, h, timestamp) ==
    [d EXCEPT !.stamps = DictSet(d.stamps, h, Append(DictGet(d.stamps, h, <<>>), timestamp))]

\* _cleanup_old_entries, its two assignments, given the list it read.
StoreValid(d, h, valid_timestamps) ==
    [d EXCEPT !.stamps = DictSet(d.stamps, h, valid_timestamps),
              !.counts = DictSet(d.counts, h, Len(valid_timestamps))]

CleanupOldEntries(d, h, current_time) ==
    StoreValid(d, h, ValidTimestamps(d.stamps[h], current_time))

\* The body of add_hashtag under the lock.
AddHashtagBody(d, hashtag, timestamp, current_time) ==
    LET h == NormalizeHashtag(hashtag)
    IN  CleanupOldEntries(AppendTimestamp(IncrementCount(d, h), h, timestamp), h, current_time)

RECURSIVE InsertByCount(_, _)
\* Insert e into a list sorted by mention_count descending, after its equals (stable).
InsertByCount(sorted, e) ==
    IF sorted = <<>> THEN <<e>>
    ELSE IF Head(sorted).mention_count >= e.mention_count
         THEN <<Head(sorted)>> \o InsertByCount(Tail(sorted), e)
         ELSE <<e>> \o sorted

RECURSIVE SortByCountDesc(_, _)
\* list.sort(key=mention_count, reverse=True): stable.
SortByCountDesc(s, i) ==
    IF i = 0 THEN <<>> ELSE InsertByCount(SortByCountDesc(s, i - 1), s[i])

\* A threshold that is off by one: more than five mentions.
MeetsThresholdStrict(count) == count > trend_threshold

\* Does a hashtag with this live count trend?
MeetsThreshold(count) == count >= trend_threshold

\* The body of get_trending_hashtags under the lock.
GetTrendingHashtags(counts, keys, limit) ==
    LET entries == [i \in DOMAIN keys |->
                        [hashtag |-> keys[i], mention_count |-> counts[keys[i]]]]
        Keep(e) == MeetsThreshold(e.mention_count)
        trending == SelectSeq(entries, Keep)
    IN  SlicePrefix(SortByCountDesc(trending, Len(trending)), limit)

\* get_hashtag_frequency
GetHashtagFrequency(counts, hashtag) == DictGet(counts, NormalizeHashtag(hashtag), 0)

TrendInit ==
    /\ now = 0
    /\ hashtag_counts = EmptyDict
    /\ count_keys = <<>>
    /\ hashtag_timestamps = EmptyDict
    /\ lock = <<>>
    /\ added = [h \in Hashtags |-> [t \in TimePoints |-> 0]]
    /\ tpc = EmptyDict
    /\ tlocal = EmptyDict
    /\ observed = <<>>

\* Time passes.
Advance ==
    /\ \E t \in TimePoints : t > now /\ now' = t
    /\ observed' = <<>>
    /\ UNCHANGED <<hashtag_counts, count_keys, hashtag_timestamps, lock, added,
                   tpc, tlocal>>

\* One whole call add_hashtag(hashtag, timestamp) by a single caller.
AddHashtagCall(hashtag, timestamp) ==
    LET d == AddHashtagBody(DetectorState, hashtag, timestamp, now)
        h == NormalizeHashtag(hashtag)
    IN  /\ TotalAdded < MaxAdds
        /\ lock = <<>>
        /\ hashtag_counts' = d.counts
        /\ count_keys' = d.keys
        /\ hashtag_timestamps' = d.stamps
        /\ added' = [added EXCEPT ![h][timestamp] = @ + 1]
        /\ observed' = <<>>
        /\ UNCHANGED <<now, lock, tpc, tlocal>>

\* add_hashtag(hashtag): timestamp defaults to time.time().
AddHashtagNow == \E hashtag \in RawHashtags : AddHashtagCall(hashtag, now)

\* add_hashtag(hashtag, timestamp) with an explicit timestamp that is already
\* outside the window.
AddHashtagOld ==
    /\ now - (time_window + 1) \in TimePoints
    /\ \E hashtag \in RawHashtags : AddHashtagCall(hashtag, now - (time_window + 1))

\* One whole call get_trending_hashtags(limit) by a single caller; the caller
\* holds the result until the next operation.
GetTrendingCall ==
    /\ lock = <<>>
    /\ observed = <<>>
    /\ \E limit \in (0 .. MaxLimit) \cup {DefaultLimit} :
          observed' = <<[limit |-> limit,
                         result |-> GetTrendingHashtags(hashtag_counts, count_keys, limit)]>>
    /\ UNCHANGED <<now, hashtag_counts, count_keys, hashtag_timestamps, lock, added,
                   tpc, tlocal>>

TrendNext ==
    \/ Advance /\ UNCHANGED <<storeVars, streamVars, alertVars, extVars>>
    \/ AddHashtagNow /\ UNCHANGED <<storeVars, streamVars, alertVars, extVars>>
    \/ AddHashtagOld /\ UNCHANGED <<storeVars, streamVars, alertVars, extVars>>
    \/ GetTrendingCall /\ UNCHANGED <<storeVars, streamVars, alertVars, extVars>>


(***************************************************************************)
(* DataStorage: construction and the real-time write path                   *)
(***************************************************************************)
\* A few words of a text; the ones with '#' are hashtags.
WordHello == <<"h", "i">>
WordTagA == <<"#", "a">>
WordTagB == <<"#", "B">>

\* Readings of datetime.now().
ClockReadings == {101, 102}

\* Real-time posts as the collectors and callers hand them over.  Two carry the
\* same post_id, one has no post_id and no timestamp, one has post_id None.
RealtimeSamples ==
    { [post_id |-> <<"p", 1>>, text |-> <<WordHello, WordTagA>>, timestamp |-> <<"iso", 1>>,
       likes |-> 10, retweets |-> 2, replies |-> 1, quotes |-> 1],
      [post_id |-> <<"p", 1>>, text |-> <<WordHello>>, timestamp |-> <<"iso", 2>>,
       likes |-> 101, hashtags |-> <<WordTagB>>],
      [post_id |-> <<"p", 2>>, title |-> <<WordHello, WordHello>>, timestamp |-> <<"iso", 3>>,
       tags |-> <<WordTagB, WordHello>>, view_count |-> 50000, like_count |-> 1,
       comment_count |-> 2],
      [body |-> <<WordTagA>>, hashtags |-> <<WordTagA, WordTagB>>, likes |-> 7],
      [post_id |-> NonePy, text |-> <<WordTagA>>, timestamp |-> <<"iso", 4>>] }

PlatformNames == {"Twitter", "YouTube", "Reddit"}

EmptySeqDict == [x \in {} |-> <<>>]

UserIds == {"default_user", "u2"}
PreferenceTypes == {"hashtag", "category"}
PreferenceValues == {"python", "youtube"}
Triples == [user_id : UserIds, preference_type : PreferenceTypes,
            preference_value : PreferenceValues]

\* init_database on a new file: every table is empty.
TablesInit ==
    /\ posts = <<>>
    /\ realtime_posts = <<>>
    /\ user_preferences = <<>>
    /\ db_time = 0
    /\ rt_last = EmptySeqDict
    /\ posts_last = EmptySeqDict
    /\ pref_calls = [triple \in Triples |-> [n |-> 0, last_used |-> 0]]

StoreInit ==
    /\ TablesInit
    /\ ppc = EmptyDict
    /\ plocal = EmptyDict

\* One call store_realtime_post({'platform': platform, 'post_data': post}).
StoreRealtimePostCall ==
    \E platform \in PlatformNames, post \in RealtimeSamples, clock \in ClockReadings :
        LET row == RealtimeRow(platform, post, clock)
        IN  /\ realtime_posts' = StoreRealtimePost(realtime_posts, platform, post, clock)
            /\ rt_last' = IF ViolatesNotNull(row) THEN rt_last
                           ELSE DictSet(rt_last, row.post_id,
                                        [platform |-> platform, post |-> post, clock |-> clock])
            /\ UNCHANGED <<posts, user_preferences, db_time, posts_last, pref_calls,
                           ppc, plocal>>

RealtimeStoreNext == StoreRealtimePostCall /\ UNCHANGED <<trendVars, streamVars, alertVars, extVars>>


\* C4: store_realtime_post is an upsert by post_id: the table holds exactly one
\* row per post_id stored, and that row carries the platform, content, timestamp,
\* engagement_score and hashtags of the most recent call for that post_id.
RealtimeUpsert ==
    /\ \A post_id \in DOMAIN rt_last :
          /\ Cardinality(RowsWithPostId(realtime_posts, post_id)) = 1
          /\ \A i \in RowsWithPostId(realtime_posts, post_id) :
                realtime_posts[i] = RealtimeRow(rt_last[post_id].platform,
                                                rt_last[post_id].post,
                                                rt_last[post_id].clock)
    /\ \A i \in DOMAIN realtime_posts : realtime_posts[i].post_id \in DOMAIN rt_last

\* C4 witness: post_id p1 was stored as a tweet with hashtag #a and then again
\* with other field values; the one row holds the second call's values.
RealtimeUpsertWitness ==
    /\ <<"p", 1>> \in DOMAIN rt_last
    /\ rt_last[<<"p", 1>>].post["timestamp"] = <<"iso", 2>>
    /\ \E i \in DOMAIN realtime_posts :
          /\ realtime_posts[i].post_id = <<"p", 1>>
          /\ realtime_posts[i].timestamp = <<"iso", 2>>
          /\ realtime_posts[i].engagement_score = 10100
    /\ Len(realtime_posts) = 3

(***************************************************************************)
(* DataStorage: the batch write path                                        *)
(***************************************************************************)
MaxBatch == 2          \* posts in one platform_data

\* Collected posts.  Two carry the same post_id, one lacks the post_id key, one
\* has post_id None.
BatchSamples ==
    { [post_id |-> <<"p", 1>>, text |-> <<WordHello, WordTagA>>, timestamp |-> <<"iso", 1>>,
       likes |-> 3, retweets |-> 2, replies |-> 1, hashtags |-> <<WordTagA>>],
      [post_id |-> <<"p", 1>>, title |-> <<WordHello>>, timestamp |-> <<"iso", 2>>,
       views |-> 200, likes |-> 5, comments |-> 4, location |-> "Pune"],
      [post_id |-> <<"p", 2>>, text |-> <<WordTagB>>, timestamp |-> <<"iso", 3>>,
       upvotes |-> 9],
      [text |-> <<WordHello>>, timestamp |-> <<"iso", 4>>],
      [post_id |-> NonePy, text |-> <<WordHello>>, timestamp |-> <<"iso", 5>>] }

Identifiers == {"u1", "u2"}

Batches == UNION { [1 .. n -> BatchSamples] : n \in 0 .. MaxBatch }

RECURSIVE RecordStored(_, _, _, _)
\* The history after a store_posts call that stored these posts.
RecordStored(last, platform, identifier, stored) ==
    IF stored = <<>> THEN last
    ELSE RecordStored(DictSet(last, Head(stored)["post_id"],
                              [platform |-> platform, identifier |-> identifier,
                               post |-> Head(stored)]),
                      platform, identifier, Tail(stored))

\* One call store_posts(platform_data).
StorePostsCall ==
    \E platform \in PlatformNames, identifier \in Identifiers, batch \in Batches :
        LET end == StorePosts(posts, platform, identifier, batch)
        IN  /\ posts' = end.table
            /\ posts_last' = RecordStored(posts_last, platform, identifier, end.stored)
            /\ UNCHANGED <<realtime_posts, user_preferences, db_time, rt_last, pref_calls,
                           ppc, plocal>>

PostsStoreNext == StorePostsCall /\ UNCHANGED <<trendVars, streamVars, alertVars, extVars>>

PostIdsOf(table) == {table[i].post_id : i \in DOMAIN table}

\* One row per post_id stored, with the values of the last call that stored it.
PostsUpsertHolds ==
    /\ \A post_id \in DOMAIN posts_last :
          /\ Cardinality(RowsWithPostId(posts, post_id)) = 1
          /\ \A i \in RowsWithPostId(posts, post_id) :
                posts[i] = PostsRow(posts_last[post_id].platform,
                                    posts_last[post_id].identifier,
                                    posts_last[post_id].post)
    /\ PostIdsOf(posts) = DOMAIN posts_last

MaxPrefCalls == 4      \* update_user_preference calls in one behaviour

\* One call update_user_preference(user_id, preference_type, preference_value),
\* alone on the database.  db_time counts the commits and stands for
\* CURRENT_TIMESTAMP.
UpdateUserPreferenceCall ==
    /\ db_time < MaxPrefCalls
    /\ \E triple \in Triples :
          /\ user_preferences' = UpdateUserPreference(user_preferences, triple, db_time + 1)
          /\ pref_calls' = [pref_calls EXCEPT ![triple] =
                                [n |-> @.n + 1, last_used |-> db_time + 1]]
    /\ db_time' = db_time + 1
    /\ UNCHANGED <<posts, realtime_posts, rt_last, posts_last, ppc, plocal>>

PrefsNext == UpdateUserPreferenceCall /\ UNCHANGED <<trendVars, streamVars, alertVars, extVars>>

\* C6: n >= 1 sequential update_user_preference calls with one triple, starting
\* without it, leave exactly one row for the triple with frequency n; the rows
\* of every other triple are unchanged (still as their own last call left them).
PreferenceFrequency ==
    \A triple \in Triples :
        LET rows == MatchingPreferences(user_preferences, triple)
        IN  IF pref_calls[triple].n = 0 THEN rows = {}
            ELSE /\ Cardinality(rows) = 1
                 /\ \A i \in rows :
                       /\ user_preferences[i].frequency = pref_calls[triple].n
                       /\ user_preferences[i].last_used = pref_calls[triple].last_used

\* C6 witness: one triple updated three times after another triple was stored.
PreferenceFrequencyWitness ==
    \E t1, t2 \in Triples :
        /\ t1.user_id = t2.user_id /\ t1.preference_type = t2.preference_type
        /\ t1 # t2
        /\ pref_calls[t1].n = 3
        /\ pref_calls[t2].n = 1
        /\ pref_calls[t2].last_used < pref_calls[t1].last_used
        /\ Len(user_preferences) = 2

(***************************************************************************)
(* DataStorage: user preferences updated from several threads.  Every call  *)
(* opens its own connection; the SELECT runs outside any transaction, and   *)
(* the UPDATE or INSERT with its commit is one write transaction, which the *)
(* database file lock serializes against the other writers.                 *)
(***************************************************************************)
NPrefThreads == 2
PrefThreads == 1 .. NPrefThreads

PrefsConcInit ==
    /\ TablesInit
    /\ ppc = [t \in PrefThreads |-> "idle"]
    /\ plocal = [t \in PrefThreads |-> [triple |-> CHOOSE x \in Triples : TRUE,
                                         result |-> <<>>]]

\* cursor.execute(SELECT ...); result = cursor.fetchone()
PrefSelect(t) ==
    /\ ppc[t] = "idle"
    /\ db_time + Cardinality({u \in PrefThreads : ppc[u] = "write"}) < MaxPrefCalls
    /\ \E triple \in Triples :
          plocal' = [plocal EXCEPT ![t] =
                        [triple |-> triple,
                         result |-> SelectPreference(user_preferences, triple)]]
    /\ ppc' = [ppc EXCEPT ![t] = "write"]
    /\ UNCHANGED <<posts, realtime_posts, user_preferences, db_time, rt_last, posts_last,
                   pref_calls>>

\* if result: UPDATE ... else: INSERT ...; conn.commit(); conn.close()
PrefWrite(t) ==
    /\ ppc[t] = "write"
    /\ user_preferences' = WritePreference(user_preferences, plocal[t].result,
                                           plocal[t].triple, db_time + 1)
    /\ pref_calls' = [pref_calls EXCEPT ![plocal[t].triple] =
                          [n |-> @.n + 1, last_used |-> db_time + 1]]
    /\ db_time' = db_time + 1
    /\ ppc' = [ppc EXCEPT ![t] = "idle"]
    /\ UNCHANGED <<posts, realtime_posts, rt_last, posts_last, plocal>>

PrefsConcNext ==
    \/ \E t \in PrefThreads : PrefSelect(t) /\ UNCHANGED <<trendVars, streamVars, alertVars, extVars>>
    \/ \E t \in PrefThreads : PrefWrite(t) /\ UNCHANGED <<trendVars, streamVars, alertVars, extVars>>

RECURSIVE SumFrequency(_, _)
SumFrequency(table, rows) ==
    IF rows = {} THEN 0
    ELSE LET i == CHOOSE j \in rows : TRUE
         IN  table[i].frequency + SumFrequency(table, rows \ {i})

\* C7: in every interleaving of update_user_preference calls from several
\* threads the table never holds two rows with the same triple, and the
\* frequency of a triple equals the number of completed calls for it.
PreferencesKeyedConcurrently ==
    \A triple \in Triples :
        LET rows == MatchingPreferences(user_preferences, triple)
        IN  /\ Cardinality(rows) <= 1
            /\ SumFrequency(user_preferences, rows) = pref_calls[triple].n

(***************************************************************************)
(* RealTimeDataCollector: start_streaming, stop_streaming and the two       *)
(* stream workers.  A worker is at the top of its while loop, at one of the *)
(* four keywords of its for loop, in the sleep that ends a cycle, or done.  *)
(***************************************************************************)
Workers == {"twitter", "youtube"}

\* tracked_keywords and tracked_topics
TrackedKeywords == <<"technology", "python", "socialmedia", "dataanalytics">>

TweetCount == 5
VideoCount == 2

\* What random.randint contributes to a simulated batch.
SimSeeds == {1}

SimHashtag(seed) == IF seed = 1 THEN WordTagA ELSE WordTagB

\* _generate_simulated_tweets('user', count), all draws of one batch alike.
SimulatedTweets(seed, count) ==
    [i \in 1 .. count |->
        [post_id |-> <<"sim_tweet", seed, i - 1>>,
         username |-> "user",
         text |-> <<WordHello, SimHashtag(seed)>>,
         timestamp |-> <<"iso", seed>>,
         likes |-> 50 * seed, retweets |-> 1, replies |-> 1, quotes |-> 1,
         lang |-> "en"]]

\* _generate_simulated_videos('search_result', count): neither a post_id nor a
\* timestamp nor tags.
SimulatedVideos(seed, count) ==
    [i \in 1 .. count |->
        [id |-> <<"sim_yt", seed, i - 1>>,
         title |-> <<WordHello>>,
         view_count |-> 1000 * seed, like_count |-> 10, comment_count |-> 1,
         channel_id |-> "search_result"]]

\* What search_tweets / search_videos may return: a simulated batch, or nothing
\* (the live client found nothing).
SearchResults(w) ==
    IF w = "twitter" THEN {SimulatedTweets(seed, TweetCount) : seed \in SimSeeds} \cup {<<>>}
    ELSE {SimulatedVideos(1, VideoCount), <<>>}

WorkerPlatform(w) == IF w = "twitter" THEN "Twitter" ELSE "YouTube"

RECURSIVE StoreStream(_, _, _, _)
\* for item in items: store_realtime_post(...); _process_realtime_tweet/_video(item).
\* The process methods compute a score and the hashtags and only print them.
StoreStream(table, platform, items, clocks) ==
    IF items = <<>> THEN table
    ELSE StoreStream(StoreRealtimePost(table, platform, Head(items), Head(clocks)),
                     platform, Tail(items), Tail(clocks))

\* How many items of a batch were stored when an exception left the inner loop:
\* none (the search itself raised) or one.
ErrorPoints == {0, 1}

\* Non-decreasing clock readings for n calls.
ClockRuns(n) ==
    {c \in [1 .. n -> ClockReadings] : \A i, j \in 1 .. n : i <= j => c[i] <= c[j]}

\* A worker that looks at the flag after every keyword.
AfterKeywordChecked(k) ==
    IF ~running THEN [at |-> "done", k |-> 0]
    ELSE IF k < Len(TrackedKeywords) THEN [at |-> "keyword", k |-> k + 1]
    ELSE [at |-> "sleep", k |-> 0]

\* Where a worker is after keyword number k of its for loop.
AfterKeyword(k) ==
    IF k < Len(TrackedKeywords) THEN [at |-> "keyword", k |-> k + 1]
    ELSE [at |-> "sleep", k |-> 0]

StreamInit ==
    /\ running = FALSE
    /\ wpc = [w \in Workers |-> [at |-> "none", k |-> 0]]
    /\ searched = [w \in Workers |-> <<>>]

\* start_streaming, which main() calls once.
StartStreaming ==
    /\ \A w \in Workers : wpc[w].at = "none"
    /\ running' = TRUE
    /\ wpc' = [w \in Workers |-> [at |-> "top", k |-> 0]]
    /\ UNCHANGED <<searched, storeVars>>

\* stop_streaming
StopStreaming ==
    /\ running' = FALSE
    /\ UNCHANGED <<wpc, searched, storeVars>>

\* while self.running:
WorkerCheck(w) ==
    /\ wpc[w].at = "top"
    /\ wpc' = [wpc EXCEPT ![w] = IF running THEN [at |-> "keyword", k |-> 1]
                                  ELSE [at |-> "done", k |-> 0]]
    /\ searched' = [searched EXCEPT ![w] = <<>>]
    /\ UNCHANGED <<running, storeVars>>

\* One pass of the for loop without an exception: search, store and process every
\* item, then time.sleep(10) or time.sleep(15).
WorkerKeyword(w) ==
    /\ wpc[w].at = "keyword"
    /\ \E items \in SearchResults(w) : \E clocks \in ClockRuns(Len(items)) :
          realtime_posts' = StoreStream(realtime_posts, WorkerPlatform(w), items, clocks)
    /\ wpc' = [wpc EXCEPT ![w] = AfterKeyword(wpc[w].k)]
    /\ searched' = [searched EXCEPT ![w] = Append(@, TrackedKeywords[wpc[w].k])]
    /\ UNCHANGED <<running, posts, user_preferences, db_time, rt_last, posts_last,
                   pref_calls, ppc, plocal>>

\* One pass of the for loop in which a store raises after n items were stored:
\* the except clause prints, sleeps 900 seconds, and the for loop goes on.
WorkerKeywordError(w) ==
    /\ wpc[w].at = "keyword"
    /\ \E items \in SearchResults(w) \ {<<>>} : \E n \in ErrorPoints :
          \E clocks \in ClockRuns(n) :
              realtime_posts' = StoreStream(realtime_posts, WorkerPlatform(w),
                                            SubSeq(items, 1, n), clocks)
    /\ wpc' = [wpc EXCEPT ![w] = AfterKeyword(wpc[w].k)]
    /\ searched' = [searched EXCEPT ![w] = Append(@, TrackedKeywords[wpc[w].k])]
    /\ UNCHANGED <<running, posts, user_preferences, db_time, rt_last, posts_last,
                   pref_calls, ppc, plocal>>

\* time.sleep(600) or time.sleep(1200) at the end of a cycle.
WorkerSleep(w) ==
    /\ wpc[w].at = "sleep"
    /\ wpc' = [wpc EXCEPT ![w] = [at |-> "top", k |-> 0]]
    /\ UNCHANGED <<running, searched, storeVars>>

WorkerStep(w) ==
    WorkerCheck(w) \/ WorkerKeyword(w) \/ WorkerKeywordError(w) \/ WorkerSleep(w)

StreamNext ==
    \/ StartStreaming /\ UNCHANGED <<trendVars, alertVars, extVars>>
    \/ StopStreaming /\ UNCHANGED <<trendVars, alertVars, extVars>>
    \/ \E w \in Workers : WorkerCheck(w) /\ UNCHANGED <<trendVars, alertVars, extVars>>
    \/ \E w \in Workers : WorkerKeyword(w) /\ UNCHANGED <<trendVars, alertVars, extVars>>
    \/ \E w \in Workers : WorkerKeywordError(w) /\ UNCHANGED <<trendVars, alertVars, extVars>>
    \/ \E w \in Workers : WorkerSleep(w) /\ UNCHANGED <<trendVars, alertVars, extVars>>

\* The threads exist and the flag is cleared.
Stopped == ~running /\ \A w \in Workers : wpc[w].at # "none"

\* What one step may do to worker w: it follows its loop whatever the flag says,
\* except at the top of the loop, the only place that reads the flag.
CooperativeStep(w) ==
    /\ (wpc[w].at = "keyword" /\ wpc'[w] # wpc[w]) =>
          /\ wpc'[w] = IF wpc[w].k < 4 THEN [at |-> "keyword", k |-> wpc[w].k + 1]
                        ELSE [at |-> "sleep", k |-> 0]
          /\ searched'[w] = SubSeq(<<"technology", "python", "socialmedia",
                                     "dataanalytics">>, 1, wpc[w].k)
    /\ (wpc[w].at = "sleep" /\ wpc'[w] # wpc[w]) =>
          /\ wpc'[w].at = "top"
          /\ searched[w] = <<"technology", "python", "socialmedia", "dataanalytics">>
    /\ (wpc[w].at = "top" /\ wpc'[w] # wpc[w]) =>
          wpc'[w].at = IF running THEN "keyword" ELSE "done"
    /\ wpc[w].at = "done" => wpc'[w] = wpc[w]

\* C8: a worker reads the running flag only at the top of a cycle: once in a
\* cycle it handles the four keywords in the order technology, python,
\* socialmedia, dataanalytics and sleeps, whatever stop_streaming does meanwhile;
\* after stop_streaming it starts no further cycle and eventually terminates.
CooperativeStop ==
    /\ [][\A w \in Workers : CooperativeStep(w)]_vars
    /\ \A w \in Workers : Stopped ~> (wpc[w].at = "done")

\* C8 witness: the flag is cleared, one worker has left its loop, and the other
\* has since finished the cycle it was in and is in its end-of-cycle sleep.
CooperativeStopWitness ==
    /\ Stopped
    /\ wpc["youtube"].at = "done"
    /\ wpc["twitter"].at = "sleep"
    /\ searched["twitter"] = TrackedKeywords

\* The hashtags of a stored real-time row, decoded.
RowHashtags(row) == IF row.hashtags = Null THEN <<>> ELSE row.hashtags[1].json

\* C9: for every real-time post a stream worker stores, each hashtag of the post
\* is also passed to TrendDetector.add_hashtag (so the detector knows it).
StreamFeedsTrendDetector ==
    \A i \in DOMAIN realtime_posts :
        \A j \in DOMAIN RowHashtags(realtime_posts[i]) :
            /\ NormalizeHashtag(RowHashtags(realtime_posts[i])[j]) \in DOMAIN hashtag_timestamps
            /\ AddedCount(NormalizeHashtag(RowHashtags(realtime_posts[i])[j])) > 0

(***************************************************************************)
(* RealTimeAnalyzer and SocialMediaAnalyzer.analyze_realtime_post           *)
(***************************************************************************)
MaxCallbacks == 3      \* registered alert callbacks
MaxAlertAdds == 5      \* hashtags fed to the detector in one behaviour

TwitterThreshold == 100
YoutubeThreshold == 500
DefaultThreshold == 100

\* self.alert_thresholds.get(platform, 100)
AlertThreshold(platform) ==
    CASE platform = "twitter" -> TwitterThreshold
      [] platform = "youtube" -> YoutubeThreshold
      [] OTHER -> DefaultThreshold

\* A comparison that also alerts at the threshold itself.
IsSignificantOrEqual(score, platform) == score >= 100 * AlertThreshold(platform)

\* engagement_score > self.alert_thresholds.get(platform, 100), score in hundredths
IsSignificant(score, platform) == score > 100 * AlertThreshold(platform)

RECURSIVE FeedHashtags(_, _, _)
\* for hashtag in hashtags: self.trend_detector.add_hashtag(hashtag)
FeedHashtags(d, hashtags, current_time) ==
    IF hashtags = <<>> THEN d
    ELSE FeedHashtags(AddHashtagBody(d, Head(hashtags), current_time, current_time),
                      Tail(hashtags), current_time)

\* analyze_realtime_post: the analysis it returns (without the sentiment score,
\* which touches no state) and the detector it leaves.
AnalyzeRealtimePost(d, post_data, current_time) ==
    LET platform == PlatformLower(DictGet(post_data, "platform", ""))
        post == DictGet(post_data, "post_data", EmptyDict)
        score == RealtimeScore(platform, post)
        hashtags == ExtractHashtags(platform, post)
        fed == FeedHashtags(d, hashtags, current_time)
    IN  [detector |-> fed,
         analysis |-> [engagement_score |-> score,
                       is_significant |-> IsSignificant(score, platform),
                       hashtags |-> hashtags,
                       trending_hashtags |->
                           GetTrendingHashtags(fed.counts, fed.keys, DefaultLimit)]]

\* The callbacks a program may register; "broken" raises an Exception.
CallbackNames == {"notify", "record", "broken"}
CallbackRaises(callback) == callback = "broken"

\* try: callback(post_data, analysis) / except Exception: print(...)
ExceptionCaught == TRUE

RECURSIVE AlertLoop(_, _)
\* for callback in self.alert_callbacks: the invocations made, and whether an
\* exception left the loop.
AlertLoop(callbacks, made) ==
    IF callbacks = <<>> THEN [made |-> made, raised |-> FALSE]
    ELSE IF CallbackRaises(Head(callbacks)) /\ ~ExceptionCaught
         THEN [made |-> Append(made, Head(callbacks)), raised |-> TRUE]
         ELSE AlertLoop(Tail(callbacks), Append(made, Head(callbacks)))

\* Posts handed to process_realtime_post: at, above and below the thresholds, on
\* a known, an unknown and a missing platform.
AlertSamples ==
    { [platform |-> "Twitter", post_data |-> [text |-> <<WordHello, WordTagA>>, likes |-> 100]],
      [platform |-> "twitter",
       post_data |-> [text |-> <<WordTagA, WordTagB>>, likes |-> 97, retweets |-> 2]],
      [platform |-> "YouTube",
       post_data |-> [title |-> <<WordHello>>, tags |-> <<WordTagB>>, view_count |-> 50000]],
      [platform |-> "YouTube",
       post_data |-> [title |-> <<WordHello>>, view_count |-> 50001]],
      [platform |-> "Reddit",
       post_data |-> [body |-> <<WordHello>>, hashtags |-> <<WordTagA>>, likes |-> 1000]],
      [post_data |-> [text |-> <<WordHello>>, likes |-> 101]] }

AlertInit ==
    /\ alert_callbacks = <<>>
    /\ alerts = <<>>
    /\ outcome = [status |-> "none"]

\* add_alert_callback(callback)
AddAlertCallback ==
    /\ Len(alert_callbacks) < MaxCallbacks
    /\ \E callback \in CallbackNames : alert_callbacks' = Append(alert_callbacks, callback)
    /\ alerts' = <<>>
    /\ outcome' = [status |-> "none"]
    /\ UNCHANGED trendVars

\* One call process_realtime_post(post_data).
ProcessRealtimePost ==
    \E post_data \in AlertSamples :
        LET done == AnalyzeRealtimePost(DetectorState, post_data, now)
            loop == IF done.analysis.is_significant THEN AlertLoop(alert_callbacks, <<>>)
                    ELSE [made |-> <<>>, raised |-> FALSE]
        IN  /\ lock = <<>>
            /\ TotalAdded + Len(done.analysis.hashtags) <= MaxAlertAdds
            /\ hashtag_counts' = done.detector.counts
            /\ count_keys' = done.detector.keys
            /\ hashtag_timestamps' = done.detector.stamps
            /\ added' = [h \in Hashtags |->
                            [t \in TimePoints |->
                                added[h][t] +
                                IF t = now
                                THEN Len(SelectSeq(done.analysis.hashtags,
                                                   LAMBDA x : NormalizeHashtag(x) = h))
                                ELSE 0]]
            /\ alerts' = [i \in DOMAIN loop.made |->
                              [callback |-> loop.made[i], post_data |-> post_data,
                               analysis |-> done.analysis]]
            /\ outcome' = [status |-> IF loop.raised THEN "raised" ELSE "returned",
                           post_data |-> post_data, analysis |-> done.analysis]
            /\ UNCHANGED <<now, lock, tpc, tlocal, observed, alert_callbacks>>

AlertNext ==
    \/ AddAlertCallback /\ UNCHANGED <<storeVars, streamVars, extVars>>
    \/ ProcessRealtimePost /\ UNCHANGED <<storeVars, streamVars, extVars>>

\* C10: process_realtime_post invokes alert callbacks if and only if the
\* engagement score is strictly greater than the platform threshold (100 for the
\* microblogging platform, 500 for the video platform, 100 for any other); then
\* every registered callback is invoked exactly once, in registration order, with
\* (post_data, analysis), also after a callback that raised; and no callback
\* exception reaches the caller.
AlertsIffSignificant ==
    outcome.status # "none" =>
        LET platform == PlatformLower(DictGet(outcome.post_data, "platform", ""))
            hundredths == CASE platform = "twitter" -> 10000
                            [] platform = "youtube" -> 50000
                            [] OTHER -> 10000
            significant == outcome.analysis.engagement_score > hundredths
        IN  /\ outcome.status = "returned"
            /\ outcome.analysis.is_significant = significant
            /\ ~significant => alerts = <<>>
            /\ significant =>
                  alerts = [i \in DOMAIN alert_callbacks |->
                               [callback |-> alert_callbacks[i],
                                post_data |-> outcome.post_data,
                                analysis |-> outcome.analysis]]

\* C10 witness: a significant post with three callbacks registered, the raising
\* one first; all three were invoked.
AlertsIffSignificantWitness ==
    /\ outcome.status = "returned"
    /\ outcome.analysis.is_significant
    /\ Len(alert_callbacks) = 3
    /\ alert_callbacks[1] = "broken"
    /\ Len(alerts) = 3
    /\ alerts[3].callback = alert_callbacks[3]

(***************************************************************************)
(* The TrendDetector called from several threads.  Thread 0 calls           *)
(* get_trending_hashtags() again and again; each thread 1..NAdders calls    *)
(* add_hashtag once, all for the hashtag "a".  The statements of            *)
(* add_hashtag are separate steps, so that what the lock excludes can be    *)
(* seen.                                                                    *)
(***************************************************************************)
NAdders == 5
Reader == 0
Adders == 1 .. NAdders
SpellingsOfA == {h \in RawHashtags : NormalizeHashtag(h) = <<"a">>}

\* A lock that never blocks.
LockIgnored == TRUE

\* `with self.lock:` can be entered.
LockFree == lock = <<>>

TrendConcInit ==
    /\ now = 0
    /\ hashtag_counts = EmptyDict
    /\ count_keys = <<>>
    /\ hashtag_timestamps = EmptyDict
    /\ lock = <<>>
    /\ added = [h \in Hashtags |-> [t \in TimePoints |-> 0]]
    /\ tpc = [t \in {Reader} \cup Adders |-> IF t = Reader THEN "idle" ELSE "start"]
    /\ tlocal = [t \in Adders |-> [hashtag |-> <<>>, timestamp |-> 0, valid |-> <<>>]]
    /\ observed = <<>>

\* timestamp = time.time(); with self.lock: normalized_hashtag = ...
AdderEnter(t) ==
    /\ tpc[t] = "start"
    /\ LockFree
    /\ \E hashtag \in SpellingsOfA :
          tlocal' = [tlocal EXCEPT ![t] = [hashtag |-> NormalizeHashtag(hashtag),
                                           timestamp |-> now, valid |-> <<>>]]
    /\ lock' = <<t>>
    /\ tpc' = [tpc EXCEPT ![t] = "count"]
    /\ UNCHANGED <<now, hashtag_counts, count_keys, hashtag_timestamps, added, observed>>

\* self.hashtag_counts[normalized_hashtag] += 1
AdderCount(t) ==
    LET d == IncrementCount(DetectorState, tlocal[t].hashtag)
    IN  /\ tpc[t] = "count"
        /\ hashtag_counts' = d.counts
        /\ count_keys' = d.keys
        /\ tpc' = [tpc EXCEPT ![t] = "append"]
        /\ UNCHANGED <<now, hashtag_timestamps, lock, added, tlocal, observed>>

\* self.hashtag_timestamps[normalized_hashtag].append(timestamp)
AdderAppend(t) ==
    LET d == AppendTimestamp(DetectorState, tlocal[t].hashtag, tlocal[t].timestamp)
    IN  /\ tpc[t] = "append"
        /\ hashtag_timestamps' = d.stamps
        /\ added' = [added EXCEPT ![tlocal[t].hashtag][tlocal[t].timestamp] = @ + 1]
        /\ tpc' = [tpc EXCEPT ![t] = "cleanup"]
        /\ UNCHANGED <<now, hashtag_counts, count_keys, lock, tlocal, observed>>

\* _cleanup_old_entries: valid_timestamps = [...]
AdderFilter(t) ==
    /\ tpc[t] = "cleanup"
    /\ tlocal' = [tlocal EXCEPT ![t].valid =
                      ValidTimestamps(hashtag_timestamps[tlocal[t].hashtag], now)]
    /\ tpc' = [tpc EXCEPT ![t] = "store"]
    /\ UNCHANGED <<now, hashtag_counts, count_keys, hashtag_timestamps, lock, added,
                   observed>>

\* _cleanup_old_entries: the two assignments; then the lock is released.
AdderStore(t) ==
    LET d == StoreValid(DetectorState, tlocal[t].hashtag, tlocal[t].valid)
    IN  /\ tpc[t] = "store"
        /\ hashtag_timestamps' = d.stamps
        /\ hashtag_counts' = d.counts
        /\ lock' = IF lock = <<t>> THEN <<>> ELSE lock
        /\ tpc' = [tpc EXCEPT ![t] = "done"]
        /\ UNCHANGED <<now, count_keys, added, tlocal, observed>>

\* get_trending_hashtags: with self.lock:
ReaderEnter ==
    /\ tpc[Reader] = "idle"
    /\ LockFree
    /\ lock' = <<Reader>>
    /\ tpc' = [tpc EXCEPT ![Reader] = "reading"]
    /\ UNCHANGED <<now, hashtag_counts, count_keys, hashtag_timestamps, added, tlocal,
                   observed>>

\* get_trending_hashtags: the comprehension, the sort, the slice and the return.
ReaderReturn ==
    /\ tpc[Reader] = "reading"
    /\ observed' = <<[limit |-> DefaultLimit,
                      result |-> GetTrendingHashtags(hashtag_counts, count_keys,
                                                     DefaultLimit)]>>
    /\ lock' = IF lock = <<Reader>> THEN <<>> ELSE lock
    /\ tpc' = [tpc EXCEPT ![Reader] = "idle"]
    /\ UNCHANGED <<now, hashtag_counts, count_keys, hashtag_timestamps, added, tlocal>>

TrendConcNext ==
    \/ \E t \in Adders : AdderEnter(t) /\ UNCHANGED <<storeVars, streamVars, alertVars, extVars>>
    \/ \E t \in Adders : AdderCount(t) /\ UNCHANGED <<storeVars, streamVars, alertVars, extVars>>
    \/ \E t \in Adders : AdderAppend(t) /\ UNCHANGED <<storeVars, streamVars, alertVars, extVars>>
    \/ \E t \in Adders : AdderFilter(t) /\ UNCHANGED <<storeVars, streamVars, alertVars, extVars>>
    \/ \E t \in Adders : AdderStore(t) /\ UNCHANGED <<storeVars, streamVars, alertVars, extVars>>
    \/ ReaderEnter /\ UNCHANGED <<storeVars, streamVars, alertVars, extVars>>
    \/ ReaderReturn /\ UNCHANGED <<storeVars, streamVars, alertVars, extVars>>


\* What a get_trending_hashtags inside its critical section reads is consistent.
CountsMatchLists ==
    \A h \in DOMAIN hashtag_counts :
        h \in DOMAIN hashtag_timestamps /\ hashtag_counts[h] = Len(hashtag_timestamps[h])

\* C3: N threads that each add the same hashtag once with in-window timestamps
\* leave a live count of N and N stored timestamps in every interleaving, and a
\* concurrent get_trending_hashtags never sees a count that differs from the
\* length of the timestamp list.
NoLostMention ==
    /\ (\A t \in Adders : tpc[t] = "done") =>
          /\ DictGet(hashtag_counts, <<"a">>, 0) = NAdders
          /\ Len(DictGet(hashtag_timestamps, <<"a">>, <<>>)) = NAdders
    /\ tpc[Reader] = "reading" => CountsMatchLists

\* C3 witness: all adders are done and the reader has returned the hashtag.
NoLostMentionWitness ==
    /\ \A t \in Adders : tpc[t] = "done"
    /\ observed # <<>>
    /\ observed[1].result = <<[hashtag |-> <<"a">>, mention_count |-> NAdders]>>

(***************************************************************************)
(* Claims about the TrendDetector used by one caller                        *)
(***************************************************************************)
\* Every add_hashtag call recorded for h carried a timestamp inside the window
\* that ends at the current time.
AllAddedInWindow(h) ==
    \A t \in TimePoints : added[h][t] > 0 => (t <= now /\ now - t <= time_window)

\* The mentions of h recorded with a timestamp within the 600 seconds before now.
MentionsInWindow(h) ==
    SumOver([t \in TimePoints |->
                IF t <= now /\ now - t <= time_window THEN added[h][t] ELSE 0], TimePoints)

ResultHashtags(result) == {result[i].hashtag : i \in DOMAIN result}

SlidingWindowTrending ==
    observed # <<>> =>
        \A h \in ResultHashtags(observed[1].result) : MentionsInWindow(h) >= 5

(***************************************************************************)
(* TwitterAPIDataCollector and YouTubeAPIDataCollector                      *)
(* A credential is <<>> for the empty string (or None), <<"placeholder", f>>*)
(* for the placeholder string the code compares field f with, or another    *)
(* string.                                                                  *)
(***************************************************************************)
TwitterFields == {"bearer_token", "api_key", "api_secret", "access_token",
                  "access_token_secret"}

EmptyCredential == <<>>
Placeholder(field) == <<"placeholder", field>>
RealCredential == <<"secret", 1>>

\* The strings a credential field may hold.
CredentialValues(field) == {EmptyCredential, Placeholder(field), RealCredential}

TwitterConfigs ==
    [bearer_token : CredentialValues("bearer_token"),
     api_key : CredentialValues("api_key"),
     api_secret : CredentialValues("api_secret"),
     access_token : CredentialValues("access_token"),
     access_token_secret : CredentialValues("access_token_secret")]

\* An api_key may also hold the placeholder of another field.
YouTubeConfigs == [api_key : CredentialValues("youtube_api_key") \cup {Placeholder("api_key")}]

\* create_default_config: the contents of a new config.json.
DefaultFileTwitter == [f \in TwitterFields |-> Placeholder(f)]
DefaultFileYouTube == [api_key |-> Placeholder("youtube_api_key")]

\* create_default_config_obj: TwitterConfig("", "", "", "", ""), YouTubeConfig("")
DefaultObjTwitter == [f \in TwitterFields |-> EmptyCredential]
DefaultObjYouTube == [api_key |-> EmptyCredential]

\* A test that only asks for a non-empty credential.
CredentialNonEmpty(value, placeholder) == Truthy(value)

\* config.x and config.x != "<placeholder of x>"
CredentialConfigured(value, placeholder) == Truthy(value) /\ value # placeholder

\* The condition of the if in TwitterAPIDataCollector.__init__.
TwitterCredentialsConfigured(config) ==
    \A f \in TwitterFields : CredentialConfigured(config[f], Placeholder(f))

\* TwitterAPIDataCollector.__init__(config); client_raises: tweepy.Client(...) raises.
\* client is <<>> while the attribute is unset, else the credentials it was built with.
NewTwitterCollector(config, client_raises) ==
    IF TwitterCredentialsConfigured(config)
    THEN IF client_raises THEN [config |-> config, use_api |-> FALSE, client |-> <<>>]
         ELSE [config |-> config, use_api |-> TRUE, client |-> <<config>>]
    ELSE [config |-> config, use_api |-> FALSE, client |-> <<>>]

\* YouTubeAPIDataCollector.__init__(config): no client is built.
NewYouTubeCollector(config) ==
    [config |-> config,
     use_api |-> CredentialConfigured(config.api_key, Placeholder("youtube_api_key"))]

MaxCount == 3          \* the largest count asked of a fetch operation
Counts == 0 .. MaxCount

TwitterMaxResults == 100
YouTubeMaxResults == 50

Min(a, b) == IF a < b THEN a ELSE b

Usernames == {"alice", "search_result"}

\* _generate_simulated_tweets(username, count)
GenerateSimulatedTweets(username, count) ==
    [i \in 1 .. count |-> [SimulatedTweets(1, count)[i] EXCEPT !.username = username]]

\* _generate_simulated_videos(channel_id, count)
GenerateSimulatedVideos(channel_id, count) ==
    [i \in 1 .. count |-> [SimulatedVideos(1, count)[i] EXCEPT !.channel_id = channel_id]]

\* The tweets a client call delivers, processed into dicts.
ProcessedTweets(n) ==
    [i \in 1 .. n |-> [post_id |-> <<"tweet", i>>, text |-> <<WordHello>>,
                       timestamp |-> <<"iso", i>>, likes |-> i, retweets |-> 0,
                       replies |-> 0, quotes |-> 0]]

\* The placeholder videos the API branch of the YouTube collector builds.
PlaceholderVideos(channel_id, count) ==
    [i \in 1 .. Min(count, YouTubeMaxResults) |->
        [id |-> <<"yt", i>>, title |-> <<WordHello>>, view_count |-> 100, like_count |-> 10,
         comment_count |-> 0, channel_id |-> channel_id]]

\* What the Twitter client may do in one fetch: raise, find no data, or deliver
\* up to max_results tweets.
ClientOutcomes(count) ==
    {[kind |-> "raises", n |-> 0], [kind |-> "no_data", n |-> 0]}
        \cup {[kind |-> "data", n |-> n] : n \in 1 .. Min(count, TwitterMaxResults)}

Returned(list) == [status |-> "returned", result |-> list]
Raised == [status |-> "raised", result |-> <<>>]

\* An except clause that lets the error through.
ReraiseClientError(fallback) == Raised

\* except Exception as e: print(...); return self._generate_simulated_...(..., count)
OnClientError(fallback) == Returned(fallback)

\* get_tweets_by_username(username, count) and search_tweets(query, count); who is
\* the name the simulated generator is given.
FetchTweets(collector, who, count, client) ==
    IF ~collector.use_api THEN Returned(GenerateSimulatedTweets(who, count))
    ELSE IF client.kind = "raises" THEN OnClientError(GenerateSimulatedTweets(who, count))
    ELSE IF client.kind = "no_data" THEN Returned(<<>>)
    ELSE Returned(ProcessedTweets(client.n))

\* get_channel_videos(channel_id, count) and search_videos(query, count): the try
\* block calls no client.
FetchVideos(collector, who, count) ==
    IF ~collector.use_api THEN Returned(GenerateSimulatedVideos(who, count))
    ELSE Returned(PlaceholderVideos(who, count))

CollectInit ==
    /\ twitter_api = NewTwitterCollector(DefaultObjTwitter, FALSE)
    /\ youtube_api = NewYouTubeCollector(DefaultObjYouTube)
    /\ fetched = [op |-> "none"]

\* The configurations the collectors of the fetch operations are built from: the
\* default object, the default file contents, and real credentials.
FetchTwitterConfigs ==
    {DefaultObjTwitter, DefaultFileTwitter, [f \in TwitterFields |-> RealCredential]}
FetchYouTubeConfigs == {DefaultObjYouTube, DefaultFileYouTube, [api_key |-> RealCredential]}

\* TwitterAPIDataCollector(config)
ConstructTwitter(configs) ==
    /\ \E config \in configs, client_raises \in BOOLEAN :
          twitter_api' = NewTwitterCollector(config, client_raises)
    /\ fetched' = [op |-> "none"]
    /\ UNCHANGED youtube_api

\* YouTubeAPIDataCollector(config)
ConstructYouTube(configs) ==
    /\ \E config \in configs : youtube_api' = NewYouTubeCollector(config)
    /\ fetched' = [op |-> "none"]
    /\ UNCHANGED twitter_api

\* get_tweets_by_username(username, count)
GetTweetsByUsername ==
    /\ \E username \in Usernames, count \in Counts : \E client \in ClientOutcomes(count) :
          fetched' = [op |-> "get_tweets_by_username", count |-> count, client |-> client.kind,
                      who |-> username,
                      end |-> FetchTweets(twitter_api, username, count, client)]
    /\ UNCHANGED <<twitter_api, youtube_api>>

\* search_tweets(query, count)
SearchTweets ==
    /\ \E count \in Counts : \E client \in ClientOutcomes(count) :
          fetched' = [op |-> "search_tweets", count |-> count, client |-> client.kind,
                      who |-> "user",
                      end |-> FetchTweets(twitter_api, "user", count, client)]
    /\ UNCHANGED <<twitter_api, youtube_api>>

\* get_channel_videos(channel_id, count)
GetChannelVideos ==
    /\ \E channel_id \in Usernames, count \in Counts :
          fetched' = [op |-> "get_channel_videos", count |-> count, client |-> "none",
                      who |-> channel_id,
                      end |-> FetchVideos(youtube_api, channel_id, count)]
    /\ UNCHANGED <<twitter_api, youtube_api>>

\* search_videos(query, count)
SearchVideos ==
    /\ \E count \in Counts :
          fetched' = [op |-> "search_videos", count |-> count, client |-> "none",
                      who |-> "search_result",
                      end |-> FetchVideos(youtube_api, "search_result", count)]
    /\ UNCHANGED <<twitter_api, youtube_api>>

\* Construction of the collectors from every configuration.
CollectNext ==
    \/ ConstructTwitter(TwitterConfigs) /\ UNCHANGED <<coreVars, recoVars, restVars>>
    \/ ConstructYouTube(YouTubeConfigs) /\ UNCHANGED <<coreVars, recoVars, restVars>>

\* Construction of the collectors and their fetch operations.
FetchNext ==
    \/ ConstructTwitter(FetchTwitterConfigs) /\ UNCHANGED <<coreVars, recoVars, restVars>>
    \/ ConstructYouTube(FetchYouTubeConfigs) /\ UNCHANGED <<coreVars, recoVars, restVars>>
    \/ GetTweetsByUsername /\ UNCHANGED <<coreVars, recoVars, restVars>>
    \/ SearchTweets /\ UNCHANGED <<coreVars, recoVars, restVars>>
    \/ GetChannelVideos /\ UNCHANGED <<coreVars, recoVars, restVars>>
    \/ SearchVideos /\ UNCHANGED <<coreVars, recoVars, restVars>>

\* C11: a collector is API-backed only if every required credential is non-empty
\* and differs from its placeholder; a Twitter client is never built from a
\* credential equal to its placeholder; the default file contents, the all-empty
\* default object and a failing client construction all leave simulated mode.
PlaceholderNeverUsed ==
    /\ twitter_api.use_api =>
          \A f \in TwitterFields :
              twitter_api.config[f] # <<>> /\ twitter_api.config[f] # <<"placeholder", f>>
    /\ twitter_api.client # <<>> =>
          /\ twitter_api.use_api
          /\ \A f \in TwitterFields : twitter_api.client[1][f] # <<"placeholder", f>>
    /\ ~twitter_api.use_api => twitter_api.client = <<>>
    /\ youtube_api.use_api =>
          /\ youtube_api.config.api_key # <<>>
          /\ youtube_api.config.api_key # <<"placeholder", "youtube_api_key">>
    /\ twitter_api.config \in {DefaultFileTwitter, DefaultObjTwitter} => ~twitter_api.use_api
    /\ youtube_api.config \in {DefaultFileYouTube, DefaultObjYouTube} => ~youtube_api.use_api
    /\ \A config \in TwitterConfigs : ~NewTwitterCollector(config, TRUE).use_api

\* C11 witness: a Twitter collector built from four real credentials and one
\* placeholder is in simulated mode, next to an API-backed YouTube collector.
PlaceholderNeverUsedWitness ==
    /\ twitter_api.config["bearer_token"] = <<"placeholder", "bearer_token">>
    /\ \A f \in TwitterFields \ {"bearer_token"} : twitter_api.config[f] = RealCredential
    /\ ~twitter_api.use_api
    /\ youtube_api.use_api

\* Every item of a list comes from a simulated generator.
AllSimulated(list) ==
    \A i \in DOMAIN list :
        \/ "post_id" \in DOMAIN list[i] /\ list[i].post_id[1] = "sim_tweet"
        \/ "id" \in DOMAIN list[i] /\ list[i].id[1] = "sim_yt"

\* C12: a fetch operation always returns a list and never raises; in simulated
\* mode and after a client error the list has exactly count simulated items.
FetchNeverFails ==
    fetched.op # "none" =>
        /\ fetched.end.status = "returned"
        /\ LET simulated_mode == IF fetched.op \in {"get_tweets_by_username", "search_tweets"}
                                 THEN ~twitter_api.use_api ELSE ~youtube_api.use_api
           IN  (simulated_mode \/ fetched.client = "raises") =>
                   /\ Len(fetched.end.result) = fetched.count
                   /\ AllSimulated(fetched.end.result)

\* C12 witness: an API-backed Twitter collector whose client call raised returned
\* the simulated tweets.
FetchNeverFailsWitness ==
    /\ fetched.op = "search_tweets"
    /\ twitter_api.use_api
    /\ fetched.client = "raises"
    /\ fetched.count = 2
    /\ Len(fetched.end.result) = 2

(***************************************************************************)
(* DataStorage: personal viewing records and their retrieval                *)
(***************************************************************************)
MaxViews == 1          \* rows of personal_viewing
MaxRecoPrefs == 1      \* update_user_preference calls before the requests

ViewPlatforms == {"Twitter", "youtube"}
ViewDurations == {0, 120}
ViewTags == {<<>>, <<"ai", "#Python">>}

\* viewing_data as POST /track_viewing hands it to store_personal_viewing.
ViewingSamples ==
    [user_id : UserIds, platform : ViewPlatforms, watch_duration : ViewDurations,
     tags : ViewTags]

\* The values store_personal_viewing binds to its INSERT; the timestamp column
\* defaults to CURRENT_TIMESTAMP, so a new row lies within the last 24 hours.
ViewingRow(viewing_data) ==
    [platform |-> PlatformLower(DictGet(viewing_data, "platform", "")),
     user_id |-> DictGet(viewing_data, "user_id", "default_user"),
     watch_duration |-> DictGet(viewing_data, "watch_duration", 0),
     tags |-> IF Truthy(DictGet(viewing_data, "tags", <<>>))
              THEN Some(JsonDumps(viewing_data["tags"])) ELSE Null,
     recent |-> TRUE]

Reverse(s) == [i \in 1 .. Len(s) |-> s[Len(s) + 1 - i]]

\* get_personal_viewing_history(user_id, limit): newest first.
GetPersonalViewingHistory(table, user_id, limit) ==
    LET Mine(row) == row.user_id = user_id
    IN  SlicePrefix(Reverse(SelectSeq(table, Mine)), limit)

\* get_viewing_stats_24h(user_id): platform -> content_count, total_watch_duration
RECURSIVE GetViewingStats24h(_, _)
GetViewingStats24h(table, user_id) ==
    IF table = <<>> THEN EmptyDict
    ELSE LET stats == GetViewingStats24h(SubSeq(table, 1, Len(table) - 1), user_id)
             row == table[Len(table)]
             old == DictGet(stats, row.platform,
                            [content_count |-> 0, total_watch_duration |-> 0])
         IN  IF row.user_id = user_id /\ row.recent
             THEN DictSet(stats, row.platform,
                          [content_count |-> old.content_count + 1,
                           total_watch_duration |->
                               old.total_watch_duration + row.watch_duration])
             ELSE stats

RECURSIVE InsertDescByField(_, _, _)
\* Insert e behind every element whose field is at least e's.
InsertDescByField(sorted, e, field) ==
    IF sorted = <<>> THEN <<e>>
    ELSE IF Head(sorted)[field] >= e[field]
         THEN <<Head(sorted)>> \o InsertDescByField(Tail(sorted), e, field)
         ELSE <<e>> \o sorted

RECURSIVE SortDescByField(_, _)
\* list.sort(key=lambda x: x[field], reverse=True): stable.
SortDescByField(list, field) ==
    IF list = <<>> THEN <<>>
    ELSE InsertDescByField(SortDescByField(SubSeq(list, 1, Len(list) - 1), field),
                           list[Len(list)], field)

\* get_user_preferences(user_id): SELECT * ... WHERE user_id = ? ORDER BY frequency DESC
GetUserPreferences(table, user_id) ==
    LET Mine(row) == row.user_id = user_id
    IN  SortDescByField(SelectSeq(table, Mine), "frequency")

(***************************************************************************)
(* RecommendationEngine                                                     *)
(* A dict whose order matters is [keys |-> insertion order, val |-> values]. *)
(***************************************************************************)
EmptyOrdered == [keys |-> <<>>, val |-> EmptyDict]

OrderedSet(d, k, v) ==
    [keys |-> IF k \in DOMAIN d.val THEN d.keys ELSE Append(d.keys, k),
     val |-> DictSet(d.val, k, v)]

\* tag.lstrip('#').lower()
TagClean(tag) == CASE tag = "#Python" -> "python"
                   [] OTHER -> tag

RECURSIVE TopicsOfPreferences(_, _)
\* for pref in preferences: hashtags and categories by frequency
TopicsOfPreferences(topics, preferences) ==
    IF preferences = <<>> THEN topics
    ELSE LET pref == Head(preferences)
             next == IF pref.preference_type = "hashtag"
                     THEN [topics EXCEPT !.hashtags =
                              OrderedSet(@, pref.preference_value, pref.frequency)]
                     ELSE IF pref.preference_type = "category"
                     THEN [topics EXCEPT !.categories =
                              OrderedSet(@, pref.preference_value, pref.frequency)]
                     ELSE topics
         IN  TopicsOfPreferences(next, Tail(preferences))

RECURSIVE CountTags(_, _)
\* for tag in tags: topics['hashtags'][tag_clean] = ....get(tag_clean, 0) + 1
CountTags(hashtags, tags) ==
    IF tags = <<>> THEN hashtags
    ELSE CountTags(OrderedSet(hashtags, TagClean(Head(tags)),
                              DictGet(hashtags.val, TagClean(Head(tags)), 0) + 1),
                   Tail(tags))

RECURSIVE TopicsOfViews(_, _)
\* The two loops over viewing_history: tags, then platforms.
TopicsOfViews(topics, viewing_history) ==
    IF viewing_history = <<>> THEN topics
    ELSE LET view == Head(viewing_history)
             tagged == IF view.tags # Null
                       THEN [topics EXCEPT !.hashtags = CountTags(@, view.tags[1].json)]
                       ELSE topics
             next == [tagged EXCEPT !.platforms =
                         OrderedSet(@, view.platform, DictGet(@.val, view.platform, 0) + 1)]
         IN  TopicsOfViews(next, Tail(viewing_history))

\* _extract_preferred_topics(preferences, viewing_history)
ExtractPreferredTopics(preferences, viewing_history) ==
    TopicsOfViews(
        TopicsOfPreferences([hashtags |-> EmptyOrdered, categories |-> EmptyOrdered,
                             platforms |-> EmptyOrdered], preferences),
        viewing_history)

\* str.title() of a platform name.
Title(platform) == CASE platform = "twitter" -> "Twitter"
                     [] platform = "youtube" -> "Youtube"
                     [] OTHER -> platform

\* _select_platform: the platforms the random draw may select.
SelectPlatform(platform_preferences) ==
    IF platform_preferences.keys = <<>> THEN {"Twitter", "YouTube"}
    ELSE {Title(p) : p \in Range(platform_preferences.keys)}

\* What random contributes to one call: the values of random.uniform and
\* random.randint at the ends of their ranges, confidence in hundredths.
RecommendationDraws == {[confidence |-> 70, watch |-> 60], [confidence |-> 95, watch |-> 600]}
MockDraws == {[confidence |-> 50, watch |-> 60], [confidence |-> 80, watch |-> 600]}

\* _generate_recommendations(preferred_topics, count), all draws of one call alike.
GenerateRecommendations(preferred_topics, count, platform, hashtag, draw) ==
    [i \in 1 .. count |->
        [id |-> <<"rec", i - 1>>,
         platform |-> platform,
         title |-> hashtag,
         recommended_for |-> SlicePrefix(preferred_topics.hashtags.keys, 3),
         confidence_score |-> draw.confidence,
         estimated_watch_time |-> draw.watch]]

\* _generate_mock_recommendations(count), all draws of one call alike.
GenerateMockRecommendations(count, platform, draw) ==
    [i \in 1 .. count |->
        [id |-> <<"mock_rec", i - 1>>,
         platform |-> platform,
         title |-> "technology",
         recommended_for |-> <<"technology", "webdev">>,
         confidence_score |-> draw.confidence,
         estimated_watch_time |-> draw.watch]]

\* if not recommendations:
NoRecommendations(recommendations) == recommendations = <<>>

\* get_user_recommendations(user_id, count): the lists it may return.
GetUserRecommendations(prefs_table, views_table, user_id, count, storage_raises) ==
    LET mocks == {GenerateMockRecommendations(count, platform, draw) :
                      platform \in {"Twitter", "YouTube"}, draw \in MockDraws}
        topics == ExtractPreferredTopics(
                      GetUserPreferences(prefs_table, user_id),
                      GetPersonalViewingHistory(views_table, user_id, 50))
        hashtags == IF topics.hashtags.keys # <<>> THEN Range(topics.hashtags.keys)
                    ELSE {"technology"}
        generated == {GenerateRecommendations(topics, count, platform, hashtag, draw) :
                          platform \in SelectPlatform(topics.platforms),
                          hashtag \in hashtags, draw \in RecommendationDraws}
    IN  IF storage_raises THEN mocks
        ELSE UNION {IF NoRecommendations(recommendations) THEN mocks
                    ELSE {recommendations} : recommendations \in generated}

(***************************************************************************)
(* PersonalAnalytics                                                        *)
(***************************************************************************)
RECURSIVE SumDurations(_)
\* sum(int(v.get('watch_duration', 0)) for v in viewing_history)
SumDurations(viewing_history) ==
    IF viewing_history = <<>> THEN 0
    ELSE Head(viewing_history).watch_duration + SumDurations(Tail(viewing_history))

\* _calculate_viewing_summary; average_watch_time in hundredths.
CalculateViewingSummary(stats_24h, viewing_history) ==
    LET total_content == Len(viewing_history)
        total_duration == SumDurations(viewing_history)
    IN  [total_content_viewed |-> total_content,
         total_watch_time |-> total_duration,
         average_watch_time |-> IF total_content > 0
                                THEN (100 * total_duration) \div total_content ELSE 0,
         content_by_platform |-> stats_24h]

\* _get_preferred_topics
GetPreferredTopics(preferences) ==
    LET IsHashtag(pref) == pref.preference_type = "hashtag"
    IN  SlicePrefix(SortDescByField(SelectSeq(preferences, IsHashtag), "frequency"), 10)

\* _get_trending_interests
GetTrendingInterests(preferences) == SlicePrefix(SortDescByField(preferences, "last_used"), 5)

\* _calculate_recommendation_accuracy, in hundredths: 0.0 without history, else
\* a draw of random.uniform(0.6, 0.85).
RecommendationAccuracy(viewing_history) ==
    IF viewing_history = <<>> THEN {0} ELSE {60, 85}

\* The insights dict, its values in the order of its keys.
InsightKeys == <<"viewing_summary", "preferred_topics", "platform_preferences",
                 "trending_interests", "recommendation_accuracy">>

\* Python's truth value of an insight: a number is true when non-zero, a list or
\* dict when it has an element or key.
InsightTruthy(insights, key) ==
    IF key = "recommendation_accuracy" THEN insights[key] # 0
    ELSE DOMAIN insights[key] # {}

\* len(v) == 0 if isinstance(v, (list, dict)) else v == 0 if isinstance(v, (int, float)) else not v
InsightEmpty(insights, key) ==
    IF key = "recommendation_accuracy" THEN insights[key] = 0
    ELSE Cardinality(DOMAIN insights[key]) = 0

\* The condition of the "no insights generated" fallback.
NoInsights(insights) ==
    \/ ~(\E i \in DOMAIN InsightKeys : InsightTruthy(insights, InsightKeys[i]))
    \/ \A i \in DOMAIN InsightKeys : InsightEmpty(insights, InsightKeys[i])

\* _generate_mock_insights, its random numbers at the low end of their ranges.
MockInsights ==
    [viewing_summary |->
        [total_content_viewed |-> 5, total_watch_time |-> 300, average_watch_time |-> 6000,
         content_by_platform |->
            [twitter |-> [content_count |-> 2, total_duration |-> 100],
             youtube |-> [content_count |-> 3, total_duration |-> 200]]],
     preferred_topics |->
        <<[preference_value |-> "technology", frequency |-> 8],
          [preference_value |-> "python", frequency |-> 6],
          [preference_value |-> "analytics", frequency |-> 5]>>,
     platform_preferences |->
        [twitter |-> [content_count |-> 2, total_duration |-> 100],
         youtube |-> [content_count |-> 3, total_duration |-> 200]],
     trending_interests |->
        <<[preference_value |-> "machine learning", frequency |-> 5],
          [preference_value |-> "data science", frequency |-> 4]>>,
     recommendation_accuracy |-> 60]

\* get_personal_insights(user_id): the objects it may return, each with the
\* generator it came from.
GetPersonalInsights(prefs_table, views_table, user_id, storage_raises) ==
    LET stats_24h == GetViewingStats24h(views_table, user_id)
        viewing_history == GetPersonalViewingHistory(views_table, user_id, 100)
        preferences == GetUserPreferences(prefs_table, user_id)
        computed == {[viewing_summary |-> CalculateViewingSummary(stats_24h, viewing_history),
                      preferred_topics |-> GetPreferredTopics(preferences),
                      platform_preferences |-> stats_24h,
                      trending_interests |-> GetTrendingInterests(preferences),
                      recommendation_accuracy |-> accuracy] :
                         accuracy \in RecommendationAccuracy(viewing_history)}
    IN  IF storage_raises THEN {[source |-> "mock", insights |-> MockInsights]}
        ELSE {IF NoInsights(insights) THEN [source |-> "mock", insights |-> MockInsights]
              ELSE [source |-> "computed", insights |-> insights] : insights \in computed}

RecoInit ==
    /\ personal_viewing = <<>>
    /\ reply = [op |-> "none"]

\* store_personal_viewing(viewing_data)
StorePersonalViewing ==
    /\ Len(personal_viewing) < MaxViews
    /\ \E viewing_data \in ViewingSamples :
          personal_viewing' = Append(personal_viewing, ViewingRow(viewing_data))
    /\ reply' = [op |-> "none"]
    /\ UNCHANGED storeVars

\* A day passes: no row lies within the last 24 hours any more.
DayPasses ==
    /\ \E i \in DOMAIN personal_viewing : personal_viewing[i].recent
    /\ personal_viewing' = [i \in DOMAIN personal_viewing |->
                               [personal_viewing[i] EXCEPT !.recent = FALSE]]
    /\ reply' = [op |-> "none"]
    /\ UNCHANGED storeVars

\* update_user_preference before the requests.
RecordPreference ==
    /\ db_time < MaxRecoPrefs
    /\ UpdateUserPreferenceCall
    /\ reply' = [op |-> "none"]
    /\ UNCHANGED personal_viewing

\* One call get_user_recommendations(user_id, count).
GetUserRecommendationsCall ==
    /\ \E user_id \in UserIds, count \in Counts, storage_raises \in BOOLEAN :
          \E result \in GetUserRecommendations(user_preferences, personal_viewing,
                                               user_id, count, storage_raises) :
              reply' = [op |-> "recommendations", user_id |-> user_id, count |-> count,
                        raised |-> storage_raises, result |-> result]
    /\ UNCHANGED <<personal_viewing, storeVars>>

\* One call get_personal_insights(user_id).
GetPersonalInsightsCall ==
    /\ \E user_id \in UserIds, storage_raises \in BOOLEAN :
          \E result \in GetPersonalInsights(user_preferences, personal_viewing,
                                            user_id, storage_raises) :
              reply' = [op |-> "insights", user_id |-> user_id,
                        raised |-> storage_raises, result |-> result]
    /\ UNCHANGED <<personal_viewing, storeVars>>

RecoNext ==
    \/ StorePersonalViewing /\ UNCHANGED <<trendVars, streamVars, alertVars, collectVars, restVars>>
    \/ DayPasses /\ UNCHANGED <<trendVars, streamVars, alertVars, collectVars, restVars>>
    \/ RecordPreference /\ UNCHANGED <<trendVars, streamVars, alertVars, collectVars, restVars>>
    \/ GetUserRecommendationsCall /\ UNCHANGED <<trendVars, streamVars, alertVars, collectVars, restVars>>
    \/ GetPersonalInsightsCall /\ UNCHANGED <<trendVars, streamVars, alertVars, collectVars, restVars>>

\* The user has neither a stored preference nor a viewing record.
NoDataFor(user_id) ==
    /\ \A i \in DOMAIN user_preferences : user_preferences[i].user_id # user_id
    /\ \A i \in DOMAIN personal_viewing : personal_viewing[i].user_id # user_id

\* C13: without stored preferences and viewing history for the user, or when the
\* storage retrieval raises, get_user_recommendations returns exactly count
\* recommendations, all from the mock generator (confidence_score within
\* [0.5, 0.8], estimated_watch_time within [60, 600]).
MockRecommendationsWithoutData ==
    (reply.op = "recommendations" /\ (reply.raised \/ NoDataFor(reply.user_id))) =>
        /\ Len(reply.result) = reply.count
        /\ \A i \in DOMAIN reply.result :
              /\ reply.result[i].id[1] = "mock_rec"
              /\ reply.result[i].confidence_score \in 50 .. 80
              /\ reply.result[i].estimated_watch_time \in 60 .. 600

\* Some computed insight carries data.
CarriesData(insights) ==
    \/ insights.viewing_summary.total_content_viewed # 0
    \/ insights.viewing_summary.total_watch_time # 0
    \/ insights.viewing_summary.content_by_platform # EmptyDict
    \/ insights.preferred_topics # <<>>
    \/ insights.platform_preferences # EmptyDict
    \/ insights.trending_interests # <<>>
    \/ insights.recommendation_accuracy # 0

\* C14: get_personal_insights returns the fully mocked object whenever every
\* computed insight is empty or zero (a user without viewing records and
\* preferences) and whenever a storage retrieval raises; it returns computed
\* insights only when at least one field carries data.
MockInsightsWithoutData ==
    reply.op = "insights" =>
        /\ (reply.raised \/ NoDataFor(reply.user_id)) => reply.result.source = "mock"
        /\ reply.result.source = "computed" => CarriesData(reply.result.insights)

(***************************************************************************)
(* DataStorage: the reads of the dashboard                                  *)
(***************************************************************************)
RECURSIVE LStripSpace(_)
LStripSpace(s) == IF s # <<>> /\ Head(s) = " " THEN LStripSpace(Tail(s)) ELSE s

\* str.strip() on the characters the model uses.
Strip(s) == Reverse(LStripSpace(Reverse(LStripSpace(s))))

\* get_recent_realtime_posts(limit=limit): ORDER BY created_at DESC LIMIT ?.
\* created_at is the time of the INSERT, so the newest rows are the last ones.
GetRecentRealtimePosts(table, limit) == SlicePrefix(Reverse(table), limit)

\* get_high_engagement_posts(min_engagement, limit), the score in hundredths.
GetHighEngagementPosts(table, min_engagement, limit) ==
    LET High(row) == row.engagement_score >= 100 * min_engagement
    IN  SlicePrefix(SortDescByField(SelectSeq(table, High), "engagement_score"), limit)

RECURSIVE GroupByHashtags(_)
\* SELECT hashtags, COUNT(*) ... WHERE hashtags IS NOT NULL GROUP BY hashtags
GroupByHashtags(rows) ==
    IF rows = <<>> THEN <<>>
    ELSE LET groups == GroupByHashtags(SubSeq(rows, 1, Len(rows) - 1))
             row == rows[Len(rows)]
         IN  IF row.hashtags = Null THEN groups
             ELSE IF \E i \in DOMAIN groups : groups[i].hashtags = row.hashtags[1]
             THEN [i \in DOMAIN groups |->
                      IF groups[i].hashtags = row.hashtags[1]
                      THEN [groups[i] EXCEPT !.count = @ + 1] ELSE groups[i]]
             ELSE Append(groups, [hashtags |-> row.hashtags[1], count |-> 1])

RECURSIVE CountGroupHashtags(_, _)
\* for hashtag in hashtags: hashtag_counts[hashtag.lower().strip()] += 1
CountGroupHashtags(hashtag_counts_in, hashtags) ==
    IF hashtags = <<>> THEN hashtag_counts_in
    ELSE LET hashtag == Strip(Lower(Head(hashtags)))
         IN  CountGroupHashtags(
                 OrderedSet(hashtag_counts_in, hashtag,
                            DictGet(hashtag_counts_in.val, hashtag, 0) + 1),
                 Tail(hashtags))

RECURSIVE CountGroups(_, _)
\* for row in rows: hashtags = json.loads(row[0]); one more for each of them
CountGroups(hashtag_counts_in, groups) ==
    IF groups = <<>> THEN hashtag_counts_in
    ELSE CountGroups(CountGroupHashtags(hashtag_counts_in, Head(groups).hashtags.json),
                     Tail(groups))

\* get_trending_hashtags(hours, limit) of the storage.  created_at grows with the
\* rowid, so the rows of the last hours are the last `fresh` rows of the table.
StorageTrendingHashtags(table, fresh, limit) ==
    LET rows == SubSeq(table, Len(table) - fresh + 1, Len(table))
        groups == SlicePrefix(SortDescByField(GroupByHashtags(rows), "count"), limit)
        counted == CountGroups(EmptyOrdered, groups)
        items == [i \in DOMAIN counted.keys |->
                     [hashtag |-> counted.keys[i], count |-> counted.val[counted.keys[i]]]]
    IN  SlicePrefix(SortDescByField(items, "count"), limit)

(***************************************************************************)
(* main.py: dashboard_data, the background refresh loop and the socket      *)
(* handlers                                                                 *)
(***************************************************************************)
\* {'time': p['created_at'], 'engagement': p['engagement_score']} for the rows of
\* one platform; created_at is named by the row it belongs to.
EngagementOf(recent_posts, platform) ==
    LET Mine(p) == p.platform = platform
        mine == SelectSeq(recent_posts, Mine)
    IN  [i \in DOMAIN mine |-> [time |-> <<"created_at", mine[i].post_id>>,
                                engagement |-> mine[i].engagement_score]]

\* dashboard_data as the module body builds it, the random numbers of the mock
\* recommendations at the low end of their ranges.
InitialDashboard ==
    [twitter_engagement |-> <<>>,
     youtube_engagement |-> <<>>,
     trending_hashtags |-> <<>>,
     high_engagement_posts |-> <<>>,
     personal_recommendations |->
        GenerateMockRecommendations(5, "Twitter", [confidence |-> 50, watch |-> 60]),
     personal_insights |-> MockInsights]

\* Where a refresh iteration may raise: nowhere, in one of its three storage
\* reads, inside the personal data retrieval, or in socketio.emit.
RefreshFaults == {"none", "recent_posts", "trending_hashtags", "high_engagement_posts",
                  "personal", "emit"}

\* The same if each value were assigned as soon as it is computed: only the
\* first read would come before every assignment.
FaultsBeforeFirstAssign == {"recent_posts"}

\* The faults that leave the try block before the six assignments.
FaultsBeforeAssign == {"recent_posts", "trending_hashtags", "high_engagement_posts"}

\* The random numbers of a retrieval are at the low end of their ranges.
LowDraws(recommendations, insights) ==
    /\ \A i \in DOMAIN recommendations : recommendations[i].estimated_watch_time = 60
    /\ insights.recommendation_accuracy \in {0, 60}

\* The personal data both the loop and the socket handlers retrieve:
\* get_user_recommendations(count=5) and get_personal_insights() for the
\* default user, both of which catch what the storage raises.  The platform
\* drawn is any, the random numbers are at the low end of their ranges.
PersonalData(storage_raises) ==
    {[personal_recommendations |-> recommendations, personal_insights |-> result.insights] :
        <<recommendations, result>> \in
            {pair \in GetUserRecommendations(user_preferences, personal_viewing,
                                             "default_user", 5, storage_raises)
                      \X GetPersonalInsights(user_preferences, personal_viewing,
                                             "default_user", storage_raises) :
                LowDraws(pair[1], pair[2].insights)}}

\* The six values one iteration of update_dashboard_data computes.
RefreshedDashboards(fault) ==
    LET recent_posts == GetRecentRealtimePosts(realtime_posts, 10)
    IN  {[twitter_engagement |-> EngagementOf(recent_posts, "twitter"),
          youtube_engagement |-> EngagementOf(recent_posts, "youtube"),
          trending_hashtags |-> StorageTrendingHashtags(realtime_posts, fresh, 10),
          high_engagement_posts |-> GetHighEngagementPosts(realtime_posts, 50, 5),
          personal_recommendations |-> personal.personal_recommendations,
          personal_insights |-> personal.personal_insights] :
            fresh \in 0 .. Len(realtime_posts),
            personal \in PersonalData(fault = "personal")}

\* A handler that lets the exception end the thread.
RefreshErrorEndsLoop == [at |-> "ended", raised |-> TRUE]

\* except Exception as e: print(...); time.sleep(5) -- the while loop goes on.
AfterRefreshError == [at |-> "sleep", raised |-> TRUE]

DashboardInit ==
    /\ dashboard_data = InitialDashboard
    /\ dashboard_writers = {}
    /\ emitted = [event |-> "none", by |-> "none"]
    /\ dpc = [at |-> "idle", raised |-> FALSE]

\* start_background_tasks, which main() calls once.
StartBackgroundTasks ==
    /\ dpc.at = "idle"
    /\ dpc' = [at |-> "try", raised |-> FALSE]
    /\ UNCHANGED <<dashboard_data, dashboard_writers, emitted>>

\* One pass of the while loop of update_dashboard_data, up to its
\* time.sleep(5), with the place where it raises.
RefreshIterationWith(fault) ==
    /\ dpc.at = "try"
    /\ IF fault \in FaultsBeforeAssign
       THEN /\ dpc' = AfterRefreshError
            /\ UNCHANGED <<dashboard_data, dashboard_writers, emitted>>
       ELSE /\ IF fault = "emit"
               THEN /\ dpc' = AfterRefreshError
                    /\ UNCHANGED emitted
               ELSE /\ dpc' = [at |-> "sleep", raised |-> FALSE]
                    /\ emitted' = [event |-> "dashboard_update",
                                   by |-> "update_dashboard_data"]
            /\ dashboard_writers' = dashboard_writers \cup {"update_dashboard_data"}
            /\ dashboard_data' \in RefreshedDashboards(fault)

RefreshIteration == \E fault \in RefreshFaults : RefreshIterationWith(fault)

\* time.sleep(5) returns, in the try block or in the except clause.
RefreshWake ==
    /\ dpc.at = "sleep"
    /\ dpc' = [at |-> "try", raised |-> FALSE]
    /\ UNCHANGED <<dashboard_data, dashboard_writers, emitted>>

\* handle_connect: the personal data is retrieved and assigned, then the whole
\* of dashboard_data is emitted.  The retrieval catches what the storage raises,
\* so the except clause of the handler is not entered.
HandleConnect ==
    /\ \E storage_raises \in BOOLEAN : \E personal \in PersonalData(storage_raises) :
          dashboard_data' =
              [dashboard_data EXCEPT
                  !.personal_recommendations = personal.personal_recommendations,
                  !.personal_insights = personal.personal_insights]
    /\ dashboard_writers' = dashboard_writers \cup {"handle_connect"}
    /\ emitted' = [event |-> "dashboard_update", by |-> "handle_connect"]
    /\ UNCHANGED dpc

\* handle_request_personal_data
HandleRequestPersonalData ==
    /\ \E storage_raises \in BOOLEAN : \E personal \in PersonalData(storage_raises) :
          dashboard_data' =
              [dashboard_data EXCEPT
                  !.personal_recommendations = personal.personal_recommendations,
                  !.personal_insights = personal.personal_insights]
    /\ dashboard_writers' = dashboard_writers \cup {"handle_request_personal_data"}
    /\ emitted' = [event |-> "personal_data_update", by |-> "handle_request_personal_data"]
    /\ UNCHANGED dpc

\* handle_request_update
HandleRequestUpdate ==
    /\ emitted' = [event |-> "dashboard_update", by |-> "handle_request_update"]
    /\ UNCHANGED <<dashboard_data, dashboard_writers, dpc>>
(***************************************************************************)
(* Python values, int() and float() of a form field, and JSON text.  A str  *)
(* that the code only strips or compares is the sequence of its whitespace  *)
(* characters and of the chunks between them; a str handed to int() or      *)
(* float() is the sequence of its characters.  A float is kept in           *)
(* hundredths.                                                              *)
(***************************************************************************)
PyStr(s) == [type |-> "str", value |-> s]
PyInt(n) == [type |-> "int", value |-> n]
PyFloat(hundredths) == [type |-> "float", value |-> hundredths]
PyBool(b) == [type |-> "bool", value |-> b]

Digits == <<"0", "1", "2", "3", "4", "5", "6", "7", "8", "9">>

IsDigit(c) == \E i \in DOMAIN Digits : Digits[i] = c
DigitValue(c) == (CHOOSE i \in DOMAIN Digits : Digits[i] = c) - 1
AllDigits(s) == s # <<>> /\ \A i \in DOMAIN s : IsDigit(s[i])

RECURSIVE DigitsValue(_)
DigitsValue(s) ==
    IF s = <<>> THEN 0
    ELSE 10 * DigitsValue(SubSeq(s, 1, Len(s) - 1)) + DigitValue(s[Len(s)])

RECURSIVE IntText(_)
\* str(n) for n >= 0
IntText(n) ==
    IF n < 10 THEN <<Digits[n + 1]>>
    ELSE IntText(n \div 10) \o <<Digits[(n % 10) + 1]>>

\* repr(x) of a float with at most two decimals.
FloatText(hundredths) ==
    IntText(hundredths \div 100) \o <<".">> \o
    (IF hundredths % 100 = 0 THEN <<"0">>
     ELSE IF hundredths % 10 = 0 THEN <<Digits[((hundredths % 100) \div 10) + 1]>>
     ELSE <<Digits[((hundredths % 100) \div 10) + 1], Digits[(hundredths % 10) + 1]>>)

\* int(text): surrounding whitespace is ignored; anything but digits raises
\* ValueError.
ParseInt(text) ==
    LET s == Strip(text)
    IN  IF AllDigits(s) THEN [ok |-> TRUE, value |-> PyInt(DigitsValue(s))]
        ELSE [ok |-> FALSE]

\* The hundredths a fraction of at most two digits stands for.
FractionValue(frac) ==
    IF frac = <<>> THEN 0
    ELSE IF Len(frac) = 1 THEN 10 * DigitValue(frac[1])
    ELSE DigitsValue(frac)

\* float(text) for texts of digits with at most one point and two decimals.
ParseFloat(text) ==
    LET s == Strip(text)
        points == {i \in DOMAIN s : s[i] = "."}
    IN  IF points = {}
        THEN (IF AllDigits(s) THEN [ok |-> TRUE, value |-> PyFloat(100 * DigitsValue(s))]
              ELSE [ok |-> FALSE])
        ELSE IF Cardinality(points) > 1 THEN [ok |-> FALSE]
        ELSE LET p == CHOOSE i \in points : TRUE
                 whole == SubSeq(s, 1, p - 1)
                 frac == SubSeq(s, p + 1, Len(s))
             IN  IF /\ whole \o frac # <<>>
                    /\ \A i \in DOMAIN s : i # p => IsDigit(s[i])
                    /\ Len(frac) <= 2
                 THEN [ok |-> TRUE,
                       value |-> PyFloat(100 * DigitsValue(whole) + FractionValue(frac))]
                 ELSE [ok |-> FALSE]

TrueText == <<"t", "r", "u", "e">>
FalseText == <<"f", "a", "l", "s", "e">>

\* json.dump of one value: a string, a number or a literal.
JsonEncode(v) ==
    CASE v.type = "str" -> [kind |-> "string", text |-> v.value]
      [] v.type = "int" -> [kind |-> "number", text |-> IntText(v.value)]
      [] v.type = "float" -> [kind |-> "number", text |-> FloatText(v.value)]
      [] v.type = "bool" -> [kind |-> "literal",
                             text |-> IF v.value THEN TrueText ELSE FalseText]

\* json.load of one value: a number with a point is a float, one without an int.
JsonDecode(j) ==
    CASE j.kind = "string" -> PyStr(j.text)
      [] j.kind = "number" -> IF "." \in Range(j.text) THEN ParseFloat(j.text).value
                              ELSE PyInt(DigitsValue(j.text))
      [] j.kind = "literal" -> PyBool(j.text = TrueText)

NestedKeys == {"twitter", "youtube"}

\* json.dump(config_data, f, indent=4): the document in the file.
JsonDump(data) ==
    [k \in DOMAIN data |->
        IF k \in NestedKeys THEN [f \in DOMAIN data[k] |-> JsonEncode(data[k][f])]
        ELSE JsonEncode(data[k])]

\* json.load(f)
JsonLoad(document) ==
    [k \in DOMAIN document |->
        IF k \in NestedKeys THEN [f \in DOMAIN document[k] |-> JsonDecode(document[k][f])]
        ELSE JsonDecode(document[k])]

(***************************************************************************)
(* config.py: AppConfig                                                     *)
(***************************************************************************)
EmptyStr == <<>>
DefaultDatabasePath == <<"social_media_data.db">>
DefaultReportDirectory == <<"reports">>
DefaultHistoryDays == 30
DefaultUpdateInterval == 300
DefaultMaxPosts == 50
DefaultRequestDelay == 100      \* 1.0, in hundredths

\* TwitterConfig.from_dict
TwitterFromDict(data) ==
    [f \in TwitterFields |-> DictGet(data, f, PyStr(EmptyStr))]

\* YouTubeConfig.from_dict
YouTubeFromDict(data) == [api_key |-> DictGet(data, "api_key", PyStr(EmptyStr))]

\* create_default_config: the document it writes.
DefaultDocument ==
    JsonDump([twitter |-> [f \in TwitterFields |-> PyStr(Placeholder(f))],
              youtube |-> [api_key |-> PyStr(Placeholder("youtube_api_key"))],
              enable_viewing_tracking |-> PyBool(TRUE),
              max_viewing_history_days |-> PyInt(DefaultHistoryDays),
              recommendation_update_interval |-> PyInt(DefaultUpdateInterval),
              privacy_mode |-> PyBool(FALSE),
              browser_extension_api_key |-> PyStr(EmptyStr),
              content_discovery_api_key |-> PyStr(EmptyStr),
              database_path |-> PyStr(DefaultDatabasePath),
              report_directory |-> PyStr(DefaultReportDirectory),
              max_posts_per_request |-> PyInt(DefaultMaxPosts),
              request_delay |-> PyFloat(DefaultRequestDelay)])

\* create_default_config_obj
CreateDefaultConfigObj ==
    [twitter |-> [f \in TwitterFields |-> PyStr(EmptyStr)],
     youtube |-> [api_key |-> PyStr(EmptyStr)],
     personal_tracking |->
        [enable_viewing_tracking |-> PyBool(TRUE),
         max_viewing_history_days |-> PyInt(DefaultHistoryDays),
         recommendation_update_interval |-> PyInt(DefaultUpdateInterval),
         privacy_mode |-> PyBool(FALSE),
         browser_extension_api_key |-> PyStr(EmptyStr)],
     database_path |-> PyStr(DefaultDatabasePath),
     report_directory |-> PyStr(DefaultReportDirectory),
     max_posts_per_request |-> PyInt(DefaultMaxPosts),
     request_delay |-> PyFloat(DefaultRequestDelay)]

\* The AppConfig load_from_file builds from the parsed document.
AppConfigFromData(data) ==
    [twitter |-> TwitterFromDict(DictGet(data, "twitter", EmptyDict)),
     youtube |-> YouTubeFromDict(DictGet(data, "youtube", EmptyDict)),
     personal_tracking |->
        [enable_viewing_tracking |-> DictGet(data, "enable_viewing_tracking", PyBool(TRUE)),
         max_viewing_history_days |->
            DictGet(data, "max_viewing_history_days", PyInt(DefaultHistoryDays)),
         recommendation_update_interval |->
            DictGet(data, "recommendation_update_interval", PyInt(DefaultUpdateInterval)),
         privacy_mode |-> DictGet(data, "privacy_mode", PyBool(FALSE)),
         browser_extension_api_key |->
            DictGet(data, "browser_extension_api_key", PyStr(EmptyStr))],
     database_path |-> DictGet(data, "database_path", PyStr(DefaultDatabasePath)),
     report_directory |-> DictGet(data, "report_directory", PyStr(DefaultReportDirectory)),
     max_posts_per_request |-> DictGet(data, "max_posts_per_request", PyInt(DefaultMaxPosts)),
     request_delay |-> DictGet(data, "request_delay", PyFloat(DefaultRequestDelay))]

\* AppConfig.load_from_file(): the configuration it returns and the file it
\* leaves; a missing file is created with the default document.
LoadFromFile(file) ==
    IF file = <<>>
    THEN [config |-> CreateDefaultConfigObj, file |-> <<DefaultDocument>>]
    ELSE [config |-> AppConfigFromData(JsonLoad(file[1])), file |-> file]

\* AppConfig.validate
Validate(config) ==
    /\ \A f \in TwitterFields : Truthy(config.twitter[f].value)
    /\ Truthy(config.youtube.api_key.value)
    /\ ~(~Truthy(config.personal_tracking.browser_extension_api_key.value)
         /\ config.personal_tracking.enable_viewing_tracking.value)
(***************************************************************************)
(* main.py: the HTTP routes.  A request is a route, a method, its form or   *)
(* body, and the step at which something raises while it is handled:        *)
(* "parse" (reading the form, the arguments or the JSON body), "storage"    *)
(* (a storage or file operation), "render" (render_template).               *)
(***************************************************************************)
Html == [kind |-> "html", status |-> "none"]
JsonReply(status) == [kind |-> "json", status |-> status]
ErrorEnvelope == JsonReply("error")
\* The exception leaves the view function.
Propagated == [kind |-> "exception", status |-> "none"]

\* What the form of /config may hold in a numeric field, a flag and a string.
IntTexts == {<<"7">>, <<" ", "4", "5">>, <<"a", "b", "c">>, <<"2", ".", "5">>}
FloatTexts == {<<"2", ".", "5">>, <<"7">>, <<"a", "b", "c">>}
FlagTexts == {TrueText, <<"on">>}
StrTexts == {<<"key">>, <<" ", "key", " ">>, <<>>}

IntFields == {"max_viewing_history_days", "recommendation_update_interval",
              "max_posts_per_request"}
FlagFields == {"enable_viewing_tracking", "privacy_mode"}
FormTwitterFields == {"twitter_bearer_token", "twitter_api_key", "twitter_api_secret",
                      "twitter_access_token", "twitter_access_token_secret"}
StrFields == FormTwitterFields \cup
             {"youtube_api_key", "browser_extension_api_key", "content_discovery_api_key",
              "database_path", "report_directory"}
FormFields == IntFields \cup FlagFields \cup StrFields \cup {"request_delay"}

\* A form with every field filled in well.
BaseForm ==
    [k \in FormFields |->
        IF k \in IntFields THEN <<"7">>
        ELSE IF k \in FlagFields THEN TrueText
        ELSE IF k = "request_delay" THEN <<"2", ".", "5">>
        ELSE <<"key">>]

\* The forms submitted: the base form with one field changed or left out, and
\* the empty form.
FormSamples ==
    {[BaseForm EXCEPT !["max_viewing_history_days"] = v] : v \in IntTexts}
    \cup {[BaseForm EXCEPT !["request_delay"] = v] : v \in FloatTexts}
    \cup {[BaseForm EXCEPT !["privacy_mode"] = v] : v \in FlagTexts}
    \cup {[BaseForm EXCEPT !["content_discovery_api_key"] = v] : v \in StrTexts}
    \cup {[x \in FormFields \ {k} |-> BaseForm[x]] :
             k \in {"max_posts_per_request", "request_delay", "enable_viewing_tracking",
                    "database_path"}}
    \cup {EmptyDict}

\* int(request.form.get(key, default))
IntField(form, key, default) ==
    IF key \in DOMAIN form THEN ParseInt(form[key])
    ELSE [ok |-> TRUE, value |-> PyInt(default)]

\* float(request.form.get(key, default))
FloatField(form, key, default) ==
    IF key \in DOMAIN form THEN ParseFloat(form[key])
    ELSE [ok |-> TRUE, value |-> PyFloat(default)]

\* request.form.get(key, default).strip()
StrField(form, key, default) == PyStr(Strip(DictGet(form, key, default)))

\* request.form.get(key) == 'true'
FlagField(form, key) == PyBool(key \in DOMAIN form /\ form[key] = TrueText)

\* The form data of a POST to /config and the config_data built from it; ok is
\* FALSE when int() or float() raises ValueError.
ConfigData(form) ==
    LET days == IntField(form, "max_viewing_history_days", DefaultHistoryDays)
        interval == IntField(form, "recommendation_update_interval", DefaultUpdateInterval)
        max_posts == IntField(form, "max_posts_per_request", DefaultMaxPosts)
        delay == FloatField(form, "request_delay", DefaultRequestDelay)
    IN  IF ~(days.ok /\ interval.ok /\ max_posts.ok /\ delay.ok) THEN [ok |-> FALSE]
        ELSE [ok |-> TRUE,
              config_data |->
                 [twitter |->
                     [bearer_token |-> StrField(form, "twitter_bearer_token", EmptyStr),
                      api_key |-> StrField(form, "twitter_api_key", EmptyStr),
                      api_secret |-> StrField(form, "twitter_api_secret", EmptyStr),
                      access_token |-> StrField(form, "twitter_access_token", EmptyStr),
                      access_token_secret |->
                          StrField(form, "twitter_access_token_secret", EmptyStr)],
                  youtube |-> [api_key |-> StrField(form, "youtube_api_key", EmptyStr)],
                  enable_viewing_tracking |-> FlagField(form, "enable_viewing_tracking"),
                  max_viewing_history_days |-> days.value,
                  recommendation_update_interval |-> interval.value,
                  privacy_mode |-> FlagField(form, "privacy_mode"),
                  browser_extension_api_key |->
                      StrField(form, "browser_extension_api_key", EmptyStr),
                  content_discovery_api_key |->
                      StrField(form, "content_discovery_api_key", EmptyStr),
                  database_path |-> StrField(form, "database_path", DefaultDatabasePath),
                  report_directory |->
                      StrField(form, "report_directory", DefaultReportDirectory),
                  max_posts_per_request |-> max_posts.value,
                  request_delay |-> delay.value]]

HttpInit ==
    /\ http = [route |-> "none", method |-> "none", fault |-> "none",
               response |-> [kind |-> "none", status |-> "none"], written |-> <<>>]
    /\ config_file = <<>>

\* What a request leaves in http; written is the config_data a POST to /config
\* has dumped to the file.
Handled(route, method, fault, response, written) ==
    [route |-> route, method |-> method, fault |-> fault, response |-> response,
     written |-> written]

\* index: render_template stands outside any try.
Index ==
    /\ \E fault \in {"none", "render"} :
          http' = Handled("/", "GET", fault,
                          IF fault = "render" THEN Propagated ELSE Html, <<>>)
    /\ UNCHANGED config_file

ConfigFaults == {"none", "storage", "render"}

\* config_page.  The form is read and converted outside any try; the dump to
\* the file and the reload are inside try blocks that flash a message;
\* render_template is outside again.
ConfigPage ==
    \E method \in {"GET", "POST"}, fault \in ConfigFaults :
      \E form \in IF method = "POST" THEN FormSamples ELSE {EmptyDict} :
        LET parsed == ConfigData(form)
        IN  IF method = "POST" /\ ~parsed.ok
            THEN /\ http' = Handled("/config", method, "parse", Propagated, <<>>)
                 /\ UNCHANGED config_file
            ELSE LET saved == method = "POST" /\ fault # "storage"
                 IN  /\ config_file' = IF saved THEN <<JsonDump(parsed.config_data)>>
                                        ELSE config_file
                     /\ http' = Handled("/config", method, fault,
                                        IF fault = "render" THEN Propagated ELSE Html,
                                        IF saved THEN <<parsed.config_data>> ELSE <<>>)

\* validate_config and test_config: load_from_file and validate, inside try.
CheckConfig ==
    \E route \in {"/config/validate", "/config/test"}, fault \in {"none", "storage"} :
        IF fault = "storage"
        THEN /\ http' = Handled(route, "POST", fault, ErrorEnvelope, <<>>)
             /\ UNCHANGED config_file
        ELSE LET loaded == LoadFromFile(config_file)
             IN  /\ config_file' = loaded.file
                 /\ http' = Handled(route, "POST", fault,
                                    JsonReply(IF Validate(loaded.config) THEN "success"
                                              ELSE "error"),
                                    <<>>)

RECURSIVE UpdatePreferences(_, _, _)
\* update_user_preference for every triple of a list, one commit after the other.
UpdatePreferences(table, triples, timestamp) ==
    IF triples = <<>> THEN table
    ELSE UpdatePreferences(UpdateUserPreference(table, Head(triples), timestamp + 1),
                           Tail(triples), timestamp + 1)

RECURSIVE CountPreferenceCalls(_, _, _)
\* The history of those calls, for the triples the history follows.
CountPreferenceCalls(calls, triples, timestamp) ==
    IF triples = <<>> THEN calls
    ELSE LET triple == Head(triples)
             next == IF triple \in DOMAIN calls
                     THEN [calls EXCEPT ![triple] =
                              [n |-> @.n + 1, last_used |-> timestamp + 1]]
                     ELSE calls
         IN  CountPreferenceCalls(next, Tail(triples), timestamp + 1)

\* The update_user_preference calls of one track_personal_viewing request: one
\* for each tag of the request, then update_user_profile, which takes the newest
\* row of the user (the one just stored) and makes one for each of its tags and
\* one for its platform.
TrackedPreferences(viewing_data) ==
    LET user_id == DictGet(viewing_data, "user_id", "default_user")
        tags == DictGet(viewing_data, "tags", <<>>)
        content == ViewingRow(viewing_data)
        stored_tags == IF content.tags = Null THEN <<>> ELSE content.tags[1].json
        Hashtag(tag) == [user_id |-> user_id, preference_type |-> "hashtag",
                         preference_value |-> TagClean(tag)]
    IN  [i \in DOMAIN tags |-> Hashtag(tags[i])]
        \o [i \in DOMAIN stored_tags |-> Hashtag(stored_tags[i])]
        \o <<[user_id |-> user_id, preference_type |-> "category",
              preference_value |-> content.platform]>>

\* The JSON bodies posted to /personal/track_viewing.
TrackedSamples == {viewing_data \in ViewingSamples : viewing_data.watch_duration = 120}

\* track_personal_viewing: everything inside try.
TrackPersonalViewing ==
    /\ Len(personal_viewing) < MaxViews
    /\ \E viewing_data \in TrackedSamples, fault \in {"none", "parse", "storage"} :
          IF fault # "none"
          THEN /\ http' = Handled("/personal/track_viewing", "POST", fault,
                                  ErrorEnvelope, <<>>)
               /\ UNCHANGED <<personal_viewing, user_preferences, pref_calls, db_time>>
          ELSE LET triples == TrackedPreferences(viewing_data)
               IN  /\ personal_viewing' = Append(personal_viewing, ViewingRow(viewing_data))
                   /\ user_preferences' = UpdatePreferences(user_preferences, triples, db_time)
                   /\ pref_calls' = CountPreferenceCalls(pref_calls, triples, db_time)
                   /\ db_time' = db_time + Len(triples)
                   /\ http' = Handled("/personal/track_viewing", "POST", fault,
                                      JsonReply("success"), <<>>)
    /\ UNCHANGED <<config_file, posts, realtime_posts, rt_last, posts_last, ppc, plocal>>

\* The routes that read and answer in JSON, with their methods; every statement
\* of each is inside its try.
JsonRoutes ==
    {<<"/generate_report", "GET">>, <<"/personal/recommendations", "GET">>,
     <<"/personal/insights", "GET">>, <<"/personal/history", "GET">>,
     <<"/content/discover", "GET">>, <<"/content/search", "GET">>,
     <<"/personal/rate_content", "POST">>, <<"/personal/data/privacy", "GET">>,
     <<"/personal/data/privacy", "POST">>, <<"/personal/data/export", "GET">>,
     <<"/personal/data/delete", "POST">>}

\* The answers without a status key: the privacy settings and the export.
Unlabelled == {<<"/personal/data/privacy", "GET">>, <<"/personal/data/export", "GET">>}

\* generate_report, get_personal_recommendations, get_personal_insights,
\* get_personal_history, discover_content, search_content, rate_content,
\* manage_privacy, export_user_data, delete_user_data.
JsonRoute ==
    /\ \E request \in JsonRoutes, fault \in {"none", "parse", "storage"} :
          http' = Handled(request[1], request[2], fault,
                          IF fault # "none" THEN ErrorEnvelope
                          ELSE IF request \in Unlabelled THEN JsonReply("none")
                          ELSE JsonReply("success"),
                          <<>>)
    /\ UNCHANGED config_file
(***************************************************************************)
(* The web server as a whole                                                *)
(***************************************************************************)
dashVars == <<dashboard_data, dashboard_writers, emitted, dpc>>
httpVars == <<http, config_file>>

WebInit ==
    /\ DashboardInit
    /\ HttpInit
    /\ wlast = [w \in Workers |-> [k |-> 0, raised |-> FALSE]]

\* Real-time rows an earlier run of the stream workers left in the database:
\* none, two simulated tweets, and those with two simulated videos.
StoredTweets ==
    StoreStream(<<>>, "Twitter", SubSeq(SimulatedTweets(1, TweetCount), 1, 2), <<101, 101>>)
RealtimeTables ==
    {<<>>, StoredTweets,
     StoreStream(StoredTweets, "YouTube", SimulatedVideos(1, VideoCount), <<101, 102>>)}

\* The database file of the web server: init_database creates what is missing
\* and keeps the rows that are there.
WebStoreInit ==
    /\ posts = <<>>
    /\ realtime_posts \in RealtimeTables
    /\ user_preferences = <<>>
    /\ db_time = 0
    /\ rt_last = EmptySeqDict
    /\ posts_last = EmptySeqDict
    /\ pref_calls = [triple \in Triples |-> [n |-> 0, last_used |-> 0]]
    /\ ppc = EmptyDict
    /\ plocal = EmptyDict

\* The background thread and the socket handlers.
DashboardNext ==
    \/ StartBackgroundTasks
          /\ UNCHANGED <<coreVars, collectVars, recoVars, calcVars, sideVars, wlast, httpVars>>
    \/ RefreshIteration /\ UNCHANGED <<coreVars, collectVars, recoVars, calcVars, sideVars, wlast, httpVars>>
    \/ RefreshWake /\ UNCHANGED <<coreVars, collectVars, recoVars, calcVars, sideVars, wlast, httpVars>>
    \/ HandleConnect /\ UNCHANGED <<coreVars, collectVars, recoVars, calcVars, sideVars, wlast, httpVars>>
    \/ HandleRequestPersonalData
          /\ UNCHANGED <<coreVars, collectVars, recoVars, calcVars, sideVars, wlast, httpVars>>
    \/ HandleRequestUpdate
          /\ UNCHANGED <<coreVars, collectVars, recoVars, calcVars, sideVars, wlast, httpVars>>

\* The HTTP routes; none of them assigns to dashboard_data.
RoutesNext ==
    \/ Index /\ UNCHANGED <<coreVars, collectVars, recoVars, calcVars, sideVars, wlast, dashVars>>
    \/ ConfigPage /\ UNCHANGED <<coreVars, collectVars, recoVars, calcVars, sideVars, wlast, dashVars>>
    \/ CheckConfig /\ UNCHANGED <<coreVars, collectVars, recoVars, calcVars, sideVars, wlast, dashVars>>
    \/ JsonRoute /\ UNCHANGED <<coreVars, collectVars, recoVars, calcVars, sideVars, wlast, dashVars>>
    \/ TrackPersonalViewing
          /\ UNCHANGED <<trendVars, streamVars, alertVars, collectVars, reply, calcVars, sideVars, wlast,
                         dashVars>>

\* The keyword passes of a stream worker, with their outcome noted.
LoopWorkerKeyword(w) ==
    /\ wlast' = [wlast EXCEPT ![w] = [k |-> wpc[w].k, raised |-> FALSE]]
    /\ WorkerKeyword(w)

LoopWorkerKeywordError(w) ==
    /\ wlast' = [wlast EXCEPT ![w] = [k |-> wpc[w].k, raised |-> TRUE]]
    /\ WorkerKeywordError(w)

\* The steps of the background refresh thread.
RefreshStep == StartBackgroundTasks \/ RefreshIteration \/ RefreshWake

\* The steps of stream worker w.
LoopWorkerStep(w) ==
    \/ (WorkerCheck(w) \/ WorkerSleep(w)) /\ UNCHANGED wlast
    \/ LoopWorkerKeyword(w)
    \/ LoopWorkerKeywordError(w)

\* The two kinds of background loop next to each other, as main() starts them.
\* The stream worker that runs next to the refresh loop here; the video worker
\* has the same loop.
LoopWorkers == {"twitter"}

LoopsNext ==
    \/ StartStreaming
          /\ UNCHANGED <<trendVars, alertVars, collectVars, recoVars, calcVars, sideVars, webVars>>
    \/ StopStreaming
          /\ UNCHANGED <<trendVars, alertVars, collectVars, recoVars, calcVars, sideVars, webVars>>
    \/ \E w \in LoopWorkers : WorkerCheck(w)
          /\ UNCHANGED <<trendVars, alertVars, collectVars, recoVars, calcVars, sideVars, webVars>>
    \/ \E w \in LoopWorkers : LoopWorkerKeyword(w)
          /\ UNCHANGED <<trendVars, alertVars, collectVars, recoVars, calcVars, sideVars, dashVars, httpVars>>
    \/ \E w \in LoopWorkers : LoopWorkerKeywordError(w)
          /\ UNCHANGED <<trendVars, alertVars, collectVars, recoVars, calcVars, sideVars, dashVars, httpVars>>
    \/ \E w \in LoopWorkers : WorkerSleep(w)
          /\ UNCHANGED <<trendVars, alertVars, collectVars, recoVars, calcVars, sideVars, webVars>>
    \/ StartBackgroundTasks
          /\ UNCHANGED <<coreVars, collectVars, recoVars, calcVars, sideVars, wlast, httpVars>>
    \/ RefreshIteration /\ UNCHANGED <<coreVars, collectVars, recoVars, calcVars, sideVars, wlast, httpVars>>
    \/ RefreshWake /\ UNCHANGED <<coreVars, collectVars, recoVars, calcVars, sideVars, wlast, httpVars>>

\* What one step may do to the two loops: the refresh thread stays in its loop,
\* a keyword pass that raises takes the worker to the next keyword of the same
\* cycle (to the end-of-cycle sleep after the last one), and a worker leaves its
\* loop only at the top, with the flag cleared.
LoopStep ==
    /\ dpc'.at \in {"idle", "try", "sleep"}
    /\ (dpc.at = "try" /\ dpc' # dpc) => dpc'.at = "sleep"
    /\ \A w \in LoopWorkers :
          /\ (wlast'[w] # wlast[w] /\ wlast'[w].raised) =>
                /\ wpc'[w] = IF wpc[w].k < 4 THEN [at |-> "keyword", k |-> wpc[w].k + 1]
                               ELSE [at |-> "sleep", k |-> 0]
                /\ searched'[w] = Append(searched[w], TrackedKeywords[wpc[w].k])
          /\ (wpc'[w].at = "done" /\ wpc[w].at # "done") =>
                (wpc[w].at = "top" /\ ~running)

\* C17: a failing iteration never stops a background loop: whatever an
\* iteration raises, the refresh thread is again and again at the start of an
\* iteration and again and again in its 5-second wait; a keyword pass of a
\* stream worker that raises takes the worker to the next keyword of the same
\* cycle, and a worker inside its for loop always gets to the end of the cycle;
\* neither loop ends because of an exception.
LoopsSurviveErrors ==
    /\ [][LoopStep]_vars
    /\ []<>(dpc.at = "try")
    /\ []<>(dpc.at = "sleep")
    /\ \A w \in LoopWorkers : (wpc[w].at = "keyword") ~> (wpc[w].at = "sleep")

\* C17 witness: the last refresh iteration raised after an earlier one had
\* emitted, and the worker, whose first keyword pass raised, is at its second
\* keyword with the flag still set.
LoopsSurviveErrorsWitness ==
    /\ dpc = [at |-> "sleep", raised |-> TRUE]
    /\ emitted.by = "update_dashboard_data"
    /\ running
    /\ wlast["twitter"] = [k |-> 1, raised |-> TRUE]
    /\ wpc["twitter"] = [at |-> "keyword", k |-> 2]

\* C15: every HTTP route handler turns an error raised while it handles a
\* request into the JSON envelope {"status": "error", "message": ...}; no route
\* lets an exception from request parsing or processing propagate, POST /config
\* with a non-numeric numeric field and POST routes without a JSON body included.
RouteErrorsBecomeEnvelopes ==
    /\ http.response.kind # "exception"
    /\ http.fault # "none" => http.response = ErrorEnvelope

\* C16: the background refresh loop is the only writer of dashboard_data: the
\* socket handlers (connect, request_personal_data, request_update) and the HTTP
\* routes only read it and never assign any of its fields.
RefreshLoopOnlyWriter == dashboard_writers \subseteq {"update_dashboard_data"}

TrackingKeys == {"enable_viewing_tracking", "max_viewing_history_days",
                 "recommendation_update_interval", "privacy_mode",
                 "browser_extension_api_key"}

\* The attribute of an AppConfig that holds the value of a key of the document:
\* <<>> when the dataclasses have no such attribute.
LoadedField(config, key) ==
    IF key \in TrackingKeys THEN <<config.personal_tracking[key]>>
    ELSE IF key \in DOMAIN config THEN <<config[key]>>
    ELSE <<>>

\* C18: configuration round trip: for every configuration submitted through the
\* POST /config form, load_from_file on the rewritten file yields a configuration
\* in which every field of the written document (both credential groups, the
\* tracking flags and intervals, browser_extension_api_key,
\* content_discovery_api_key, database_path, report_directory,
\* max_posts_per_request, request_delay) has the written value and numeric type.
ConfigRoundTrip ==
    (http.route = "/config" /\ http.written # <<>>) =>
        \A key \in DOMAIN http.written[1] :
            LoadedField(LoadFromFile(config_file).config, key) = <<http.written[1][key]>>

\* ---------------------------------------------------------------------------
\* analyzer.py: _calculate_percentiles
\* ---------------------------------------------------------------------------

MaxScores == 3         \* length of the score lists tried with every content
MaxRamp == 100         \* length of the longest run of distinct scores tried

\* sorted(data): the elements in ascending order; position k holds the
\* element with fewer than k elements below it and at least k not above it.
SortAsc(data) ==
    [k \in 1 .. Len(data) |->
        CHOOSE x \in Range(data) :
            /\ Cardinality({j \in DOMAIN data : data[j] < x}) < k
            /\ k <= Cardinality({j \in DOMAIN data : data[j] <= x})]

\* The six keys of the result with their fraction, in hundredths.
PercentileFractions ==
    [p25 |-> 25, p50 |-> 50, p75 |-> 75, p90 |-> 90, p95 |-> 95, p99 |-> 99]

\* The index len * fraction rounded up to the next rank, less one.
NearestRankIndex(fraction, n) == ((fraction * n + 99) \div 100) - 1

\* int(fraction * n): the product truncated toward zero.  The double product
\* of each of the six fractions with a length truncates to the exact floor.
PercentileIndex(fraction, n) == (fraction * n) \div 100

\* _calculate_percentiles(data); sequences are 1-based, lists 0-based.
CalculatePercentiles(data) ==
    IF Len(data) < 2 THEN EmptyDict
    ELSE LET sorted_data == SortAsc(data)
             n == Len(sorted_data)
         IN [key \in DOMAIN PercentileFractions |->
                sorted_data[PercentileIndex(PercentileFractions[key], n) + 1]]

\* Score lists: every short list over three scores, and the runs 1..n and
\* n..1 of distinct scores.
ScoreValues == {1, 2, 3}

ScoreLists ==
    UNION {[1 .. n -> ScoreValues] : n \in 0 .. MaxScores}
      \cup {[i \in 1 .. n |-> i] : n \in 0 .. MaxRamp}
      \cup {[i \in 1 .. n |-> n + 1 - i] : n \in 0 .. MaxRamp}

PercentilesInit ==
    /\ score_data \in ScoreLists
    /\ percentiles = [called |-> FALSE, result |-> EmptyDict]

CallCalculatePercentiles ==
    /\ ~percentiles.called
    /\ percentiles' = [called |-> TRUE, result |-> CalculatePercentiles(score_data)]
    /\ UNCHANGED score_data

PercentilesNext ==
    \/ CallCalculatePercentiles
          /\ UNCHANGED <<coreVars, collectVars, recoVars, webVars, sideVars, velocity_posts,
                         velocity_platform, velocity>>

\* x is in data, with at most i elements of data below it and fewer than
\* len - i above it.
StandsAt(data, i, x) ==
    /\ \E j \in DOMAIN data : data[j] = x
    /\ Cardinality({j \in DOMAIN data : data[j] < x}) <= i
    /\ Cardinality({j \in DOMAIN data : data[j] > x}) < Len(data) - i

\* C19: each of p25, p50, p75, p90, p95, p99 is the element of the ascending
\* sort at index floor(len * fraction), with no interpolation; the index is
\* below len; the median of 1..10 is 6; fewer than two elements give {}.
PercentileIndexing ==
    percentiles.called =>
        LET n == Len(score_data)
            result == percentiles.result
        IN /\ n < 2 => result = EmptyDict
           /\ n >= 2 =>
                /\ DOMAIN result = {"p25", "p50", "p75", "p90", "p95", "p99"}
                /\ \A key \in DOMAIN result :
                      \E i \in 0 .. n - 1 :
                         /\ 100 * i <= PercentileFractions[key] * n
                         /\ PercentileFractions[key] * n < 100 * (i + 1)
                         /\ StandsAt(score_data, i, result[key])
           /\ (n = 10 /\ Range(score_data) = 1 .. 10) => result["p50"] = 6

\* The run 10..1 has been handed over and its median came back as 6, and its
\* p99 as the last element.
PercentileIndexingWitness ==
    /\ percentiles.called
    /\ score_data = [i \in 1 .. 10 |-> 11 - i]
    /\ percentiles.result["p50"] = 6
    /\ percentiles.result["p99"] = 10

\* ---------------------------------------------------------------------------
\* analyzer.py: _calculate_engagement_velocity
\* ---------------------------------------------------------------------------

MaxVelocityPosts == 3  \* posts handed to one call

\* The timestamp texts tried, in the order Python's str comparison gives
\* them: the empty text first, "+" before "Z", digits before letters.
TimestampOrder ==
    << "",
       "2024-01-01T00:00:00+00:00",
       "2024-01-01T00:00:00Z",
       "2024-01-01T00:01:00Z",
       "yesterday" >>

TimestampRank(text) == CHOOSE i \in DOMAIN TimestampOrder : TimestampOrder[i] = text

\* text.replace('Z', '+00:00')
ReplaceZ(text) ==
    CASE text = "2024-01-01T00:00:00Z" -> "2024-01-01T00:00:00+00:00"
      [] text = "2024-01-01T00:01:00Z" -> "2024-01-01T00:01:00+00:00"
      [] OTHER -> text

\* datetime.fromisoformat(text).timestamp(): <<seconds>>, or <<>> where
\* fromisoformat raises ValueError.
FromIsoFormat(text) ==
    CASE text = "2024-01-01T00:00:00+00:00" -> <<1704067200>>
      [] text = "2024-01-01T00:01:00+00:00" -> <<1704067260>>
      [] OTHER -> <<>>

\* The except ValueError branch appends 0.
EpochOf(post) ==
    LET parsed == FromIsoFormat(ReplaceZ(DictGet(post, "timestamp", "")))
    IN IF parsed = <<>> THEN 0 ELSE parsed[1]

\* sorted(posts, key=lambda x: x.get('timestamp', '')): stable, on the text.
RECURSIVE InsertByTimestamp(_, _)
InsertByTimestamp(sorted, post) ==
    IF sorted = <<>> THEN <<post>>
    ELSE IF TimestampRank(DictGet(post, "timestamp", ""))
              < TimestampRank(DictGet(Head(sorted), "timestamp", ""))
         THEN <<post>> \o sorted
    ELSE <<Head(sorted)>> \o InsertByTimestamp(Tail(sorted), post)

RECURSIVE SortByTimestamp(_, _)
SortByTimestamp(posts_in, i) ==
    IF i = 0 THEN <<>>
    ELSE InsertByTimestamp(SortByTimestamp(posts_in, i - 1), posts_in[i])

\* The engagement of one post, in hundredths.
VelocityEngagement(post, platform) ==
    CASE platform = "twitter" ->
            100 * (DictGet(post, "likes", 0) + DictGet(post, "retweets", 0) * 2
                     + DictGet(post, "replies", 0))
      [] platform = "youtube" ->
            DictGet(post, "views", 0) + 100 * DictGet(post, "likes", 0)
              + 150 * DictGet(post, "comments", 0)
      [] OTHER -> 0

\* A velocity: engagement_diff hundredths over time_diff seconds.
ZeroVelocity == [engagement_diff |-> 0, time_diff |-> 1]

\* _calculate_engagement_velocity(posts, platform)
CalculateEngagementVelocity(posts_in, platform) ==
    IF Len(posts_in) < 2 THEN ZeroVelocity
    ELSE LET sorted_posts == SortByTimestamp(posts_in, Len(posts_in))
             n == Len(sorted_posts)
             engagements == [i \in 1 .. n |-> VelocityEngagement(sorted_posts[i], platform)]
             timestamps == [i \in 1 .. n |-> EpochOf(sorted_posts[i])]
         IN IF Len(timestamps) > 1 /\ timestamps[n] # timestamps[1]
            THEN LET time_diff == timestamps[n] - timestamps[1]
                     engagement_diff == engagements[n] - engagements[1]
                 IN \* 0 / time_diff is 0.0, which equals 0
                    IF engagement_diff = 0 THEN ZeroVelocity
                    ELSE [engagement_diff |-> engagement_diff, time_diff |-> time_diff]
            ELSE ZeroVelocity

\* The posts tried: with each timestamp text or without the key, with few or
\* many likes.
VelocityPostSamples ==
    {[timestamp |-> text, likes |-> likes, retweets |-> 1, views |-> 100, comments |-> 2] :
        text \in Range(TimestampOrder) \ {""}, likes \in {1, 5}}
      \cup {[likes |-> likes, retweets |-> 1, views |-> 100, comments |-> 2] :
              likes \in {1, 5}}

VelocityPlatforms == {"twitter", "youtube", "reddit"}

PercentilesIdle ==
    /\ score_data = <<>>
    /\ percentiles = [called |-> FALSE, result |-> EmptyDict]

VelocityIdle ==
    /\ velocity_posts = <<>>
    /\ velocity_platform = "twitter"
    /\ velocity = [called |-> FALSE, result |-> ZeroVelocity]

\* The analyzer after construction: neither helper has been called.
CalcInit == PercentilesIdle /\ VelocityIdle

VelocityInit ==
    /\ velocity_posts \in UNION {[1 .. n -> VelocityPostSamples] : n \in 0 .. MaxVelocityPosts}
    /\ velocity_platform \in VelocityPlatforms
    /\ velocity = [called |-> FALSE, result |-> ZeroVelocity]

CallCalculateEngagementVelocity ==
    /\ ~velocity.called
    /\ velocity' = [called |-> TRUE,
                    result |-> CalculateEngagementVelocity(velocity_posts, velocity_platform)]
    /\ UNCHANGED <<velocity_posts, velocity_platform>>

VelocityNext ==
    \/ CallCalculateEngagementVelocity
          /\ UNCHANGED <<coreVars, collectVars, recoVars, webVars, sideVars, score_data,
                         percentiles>>

\* The timestamp text of a post fails to parse.
FailsToParse(post) == FromIsoFormat(ReplaceZ(DictGet(post, "timestamp", ""))) = <<>>

\* C20: the velocity is 0 for fewer than two posts, when the earliest and the
\* latest post have equal timestamps, and when the timestamp of the earliest
\* or of the latest post fails to parse; otherwise it is the difference of
\* the engagements of the last and the first post of the timestamp sort over
\* the difference of their epochs.
VelocityCases ==
    velocity.called =>
        LET n == Len(velocity_posts)
            sorted_posts == SortByTimestamp(velocity_posts, n)
            first == sorted_posts[1]
            last == sorted_posts[n]
            result == velocity.result
        IN IF n < 2 THEN result = ZeroVelocity
           ELSE IF \/ FailsToParse(first)
                   \/ FailsToParse(last)
                   \/ DictGet(first, "timestamp", "") = DictGet(last, "timestamp", "")
                   \/ EpochOf(first) = EpochOf(last)
           THEN result = ZeroVelocity
           ELSE result.engagement_diff * (EpochOf(last) - EpochOf(first))
                  = (VelocityEngagement(last, velocity_platform)
                       - VelocityEngagement(first, velocity_platform)) * result.time_diff

\* ---------------------------------------------------------------------------
\* visualizer.py: RealTimeDashboard.update_with_post and
\* SocialMediaVisualizer.add_realtime_data
\* ---------------------------------------------------------------------------

DataPointsLimit == 50  \* data points kept per platform key
BufferLimit == 100     \* entries kept per visualizer buffer
MaxUpdates == 3        \* update_with_post calls in one behaviour

\* lst[-n:]
LastN(lst, n) ==
    IF Len(lst) <= n THEN lst ELSE SubSeq(lst, Len(lst) - n + 1, Len(lst))

\* The engagement score update_with_post computes, in hundredths.
UpdateScore(platform, post) ==
    CASE platform = "twitter" ->
            100 * DictGet(post, "likes", 0) + 200 * DictGet(post, "retweets", 0)
              + 150 * DictGet(post, "replies", 0) + 150 * DictGet(post, "quotes", 0)
      [] platform = "youtube" ->
            DictGet(post, "view_count", 0) + 100 * DictGet(post, "like_count", 0)
              + 150 * DictGet(post, "comment_count", 0)
      [] OTHER -> 0

\* The data point appended at clock reading t.
DataPoint(t, platform, post) ==
    [timestamp |-> t, engagement_score |-> UpdateScore(platform, post), post_data |-> post]

\* The entry handed to the visualizer at clock reading t.
BufferEntry(t, platform, post) ==
    [timestamp |-> t, engagement_score |-> UpdateScore(platform, post),
     platform |-> platform]

\* The posts handed to update_with_post: the platform as the collector
\* spells it, and the item.
UpdateTweet == [likes |-> 3, retweets |-> 1, replies |-> 2, quotes |-> 0]

UpdateQuoted == [likes |-> 0, retweets |-> 0, replies |-> 0, quotes |-> 1]

UpdateVideo == [view_count |-> 200, like_count |-> 4, comment_count |-> 2]

UpdateSamples ==
    { [platform |-> "Twitter", post_data |-> UpdateTweet],
      [platform |-> "twitter", post_data |-> UpdateQuoted],
      [platform |-> "YouTube", post_data |-> UpdateVideo],
      [platform |-> "Reddit", post_data |-> UpdateTweet],
      [platform |-> "Instagram", post_data |-> UpdateTweet] }

\* The holder after construction.
RtdIdle ==
    /\ data_points = [twitter |-> <<>>, reddit |-> <<>>]
    /\ twitter_data_buffer = <<>>
    /\ reddit_data_buffer = <<>>
    /\ rtd_now = 0
    /\ update_call = [platform |-> "none", raised |-> "none", before |-> <<>>,
                      point |-> <<>>, n |-> 0]

\* The holder after k updates with the microblogging sample, one per clock
\* reading: the last 50 data points and the last 100 buffer entries.
UpdatesBefore == {0, DataPointsLimit - 1, BufferLimit - 1}

RtdInit ==
    \E k \in UpdatesBefore :
        /\ data_points =
              [twitter |-> LastN([t \in 1 .. k |-> DataPoint(t, "twitter", UpdateTweet)],
                                 DataPointsLimit),
               reddit |-> <<>>]
        /\ twitter_data_buffer =
              LastN([t \in 1 .. k |-> BufferEntry(t, "twitter", UpdateTweet)], BufferLimit)
        /\ reddit_data_buffer = <<>>
        /\ rtd_now = k
        /\ update_call = [platform |-> "none", raised |-> "none", before |-> <<>>,
                          point |-> <<>>, n |-> 0]

\* SocialMediaVisualizer.add_realtime_data: <<twitter buffer, reddit buffer>>.
AddRealtimeData(platform, entry) ==
    IF PlatformLower(platform) = "twitter"
    THEN <<LastN(Append(twitter_data_buffer, entry), BufferLimit), reddit_data_buffer>>
    ELSE IF PlatformLower(platform) = "reddit"
    THEN <<twitter_data_buffer, LastN(Append(reddit_data_buffer, entry), BufferLimit)>>
    ELSE <<twitter_data_buffer, reddit_data_buffer>>

\* RealTimeDashboard.update_with_post(post_data).  data_points has the keys
\* given at construction; indexing it with another key raises KeyError
\* inside the with block, which releases the lock and lets the error out
\* before the visualizer is reached.
UpdateWithPost ==
    \E post_data \in UpdateSamples :
        LET platform == PlatformLower(DictGet(post_data, "platform", ""))
            post == DictGet(post_data, "post_data", EmptyDict)
            t == rtd_now + 1
            point == DataPoint(t, platform, post)
            known == platform \in DOMAIN data_points
            buffers == AddRealtimeData(platform, BufferEntry(t, platform, post))
        IN /\ update_call.n < MaxUpdates
           /\ rtd_now' = t
           /\ update_call' =
                 [platform |-> platform,
                  raised |-> IF known THEN "none" ELSE "KeyError",
                  before |-> IF known THEN data_points[platform] ELSE <<>>,
                  point |-> <<point>>,
                  n |-> update_call.n + 1]
           /\ IF known
              THEN /\ data_points' =
                         [data_points EXCEPT
                             ![platform] = LastN(Append(@, point), DataPointsLimit)]
                   /\ twitter_data_buffer' = buffers[1]
                   /\ reddit_data_buffer' = buffers[2]
              ELSE UNCHANGED <<data_points, twitter_data_buffer, reddit_data_buffer>>

RtdNext ==
    \/ UpdateWithPost
          /\ UNCHANGED <<coreVars, collectVars, recoVars, webVars, calcVars, analysisVars,
                         srpVars, stream_threads, reportVars>>

\* C21: an update with a post of the microblogging or of the video platform
\* appends one data point with the real-time score to that platform's
\* buffer; each buffer of the holder keeps at most its 50 most recent points
\* in arrival order, each buffer of the visualizer at most 100.
BoundedBuffers ==
    /\ \A key \in DOMAIN data_points : Len(data_points[key]) <= DataPointsLimit
    /\ Len(twitter_data_buffer) <= BufferLimit
    /\ Len(reddit_data_buffer) <= BufferLimit
    /\ update_call.platform \in {"twitter", "youtube"} =>
          /\ update_call.raised = "none"
          /\ update_call.platform \in DOMAIN data_points
          /\ data_points[update_call.platform]
               = LastN(update_call.before \o update_call.point, DataPointsLimit)

\* ---------------------------------------------------------------------------
\* analyzer.py: analyze_engagement, analyze_audience_demographics,
\* compare_platform_performance and generate_insights
\* ---------------------------------------------------------------------------

MaxInsightPosts == 2   \* posts in one envelope handed to generate_insights

\* The engagement score of one post in analyze_engagement, in hundredths.
AnalysisScore(platform, post) ==
    IF platform = "twitter"
    THEN 100 * DictGet(post, "likes", 0) + 200 * DictGet(post, "retweets", 0)
           + 100 * DictGet(post, "replies", 0)
    ELSE DictGet(post, "views", 0) + 100 * DictGet(post, "likes", 0)
           + 150 * DictGet(post, "comments", 0)

RECURSIVE SumSeq(_, _)
SumSeq(numbers, i) == IF i = 0 THEN 0 ELSE SumSeq(numbers, i - 1) + numbers[i]

MaxOf(numbers) == CHOOSE x \in Range(numbers) : \A y \in Range(numbers) : y <= x

MinOf(numbers) == CHOOSE x \in Range(numbers) : \A y \in Range(numbers) : x <= y

\* round(total / n, 2) of a total in hundredths: the nearest hundredth.  A
\* mean that lies halfway between two hundredths goes up here.
Round2(total, n) == (2 * total + n) \div (2 * n)

\* A timestamp value that is not a str makes sorted() or .replace() raise.
VelocityRaises(posts_in) ==
    /\ Len(posts_in) >= 2
    /\ \E i \in DOMAIN posts_in :
          /\ "timestamp" \in DOMAIN posts_in[i]
          /\ posts_in[i]["timestamp"] \notin Range(TimestampOrder)

\* analyze_engagement(platform_data): how it ended and the mapping returned.
\* engagement_scores is assigned in the two platform branches only; for
\* another platform the later read of it raises UnboundLocalError.  Of the
\* figures, median, std_deviation, volatility, growth_rate and the averages
\* of the single counters are left out.
AnalyzeEngagement(platform_data) ==
    IF platform_data = EmptyDict \/ "posts" \notin DOMAIN platform_data
    THEN [raised |-> "none", value |-> EmptyDict]
    ELSE IF "platform" \notin DOMAIN platform_data
    THEN [raised |-> "KeyError", value |-> EmptyDict]
    ELSE LET posts_in == platform_data["posts"]
             platform == PlatformLower(platform_data["platform"])
             engagement_scores ==
                 [i \in DOMAIN posts_in |-> AnalysisScore(platform, posts_in[i])]
             n == Len(engagement_scores)
             total_engagement == SumSeq(engagement_scores, n)
         IN IF platform \notin {"twitter", "youtube"}
            THEN [raised |-> "UnboundLocalError", value |-> EmptyDict]
            ELSE IF n > 0 /\ VelocityRaises(posts_in)
            THEN [raised |-> "TypeError", value |-> EmptyDict]
            ELSE [raised |-> "none",
                  value |->
                     [total_posts |-> Len(posts_in),
                      avg_engagement |-> IF n > 0 THEN Round2(total_engagement, n) ELSE 0,
                      max_engagement |-> IF n > 0 THEN MaxOf(engagement_scores) ELSE 0,
                      min_engagement |-> IF n > 0 THEN MinOf(engagement_scores) ELSE 0,
                      engagement_rate |-> IF n > 0 THEN Round2(total_engagement, n) ELSE 0,
                      engagement_velocity |->
                         IF n > 0 THEN CalculateEngagementVelocity(posts_in, platform)
                         ELSE ZeroVelocity,
                      engagement_percentiles |->
                         IF n > 0 THEN CalculatePercentiles(engagement_scores)
                         ELSE EmptyDict]]

\* analyze_audience_demographics(platform_data), as far as generate_insights
\* reads it: whether top_locations, most_active_hour and top_hashtags are set.
AnalyzeAudienceDemographics(platform_data) ==
    IF platform_data = EmptyDict \/ "posts" \notin DOMAIN platform_data
    THEN [top_locations |-> FALSE, most_active_hour |-> FALSE, top_hashtags |-> FALSE]
    ELSE LET posts_in == platform_data["posts"]
         IN [top_locations |-> \E i \in DOMAIN posts_in : "location" \in DOMAIN posts_in[i],
             most_active_hour |->
                \E i \in DOMAIN posts_in :
                   /\ "timestamp" \in DOMAIN posts_in[i]
                   /\ posts_in[i]["timestamp"] # ""
                   /\ FromIsoFormat(ReplaceZ(posts_in[i]["timestamp"])) # <<>>,
             top_hashtags |-> \E i \in DOMAIN posts_in : "hashtags" \in DOMAIN posts_in[i]]

\* A quotient of two averages: float('inf'), or numerator over denominator.
Infinity == [inf |-> TRUE, num |-> 1, den |-> 1]

Quotient(num, den) == [inf |-> FALSE, num |-> num, den |-> den]

\* ratio > 2 and ratio < 0.5 for a quotient of non-negative averages.
Above2(ratio) == ratio.inf \/ ratio.num > 2 * ratio.den

BelowHalf(ratio) == ~ratio.inf /\ 2 * ratio.num < ratio.den

\* compare_platform_performance: its engagement_ratio entry, <<>> when the
\* key is not set.
EngagementRatio(twitter_data, youtube_data) ==
    LET tw_engagement == AnalyzeEngagement(twitter_data).value
        yt_engagement == AnalyzeEngagement(youtube_data).value
    IN IF tw_engagement # EmptyDict /\ yt_engagement # EmptyDict
       THEN <<[twitter_to_youtube |->
                  IF yt_engagement["avg_engagement"] # 0
                  THEN Quotient(tw_engagement["avg_engagement"],
                                yt_engagement["avg_engagement"])
                  ELSE Infinity,
               youtube_to_twitter |->
                  IF tw_engagement["avg_engagement"] # 0
                  THEN Quotient(yt_engagement["avg_engagement"],
                                tw_engagement["avg_engagement"])
                  ELSE Infinity]>>
       ELSE <<>>

\* The insights of one platform: the kinds of the sentences appended.
PlatformInsights(platform_data, name, high, low) ==
    IF platform_data = EmptyDict THEN <<>>
    ELSE LET engagement == AnalyzeEngagement(platform_data).value
             demographics == AnalyzeAudienceDemographics(platform_data)
         IN IF engagement = EmptyDict THEN <<>>
            ELSE (IF engagement["avg_engagement"] > high THEN <<<<name, "high">>>>
                  ELSE IF engagement["avg_engagement"] < low THEN <<<<name, "low">>>>
                  ELSE <<>>)
                 \o (IF demographics.top_locations THEN <<<<name, "location">>>> ELSE <<>>)
                 \o (IF name = "twitter" /\ demographics.most_active_hour
                     THEN <<<<name, "peak_hour">>>> ELSE <<>>)

\* generate_insights(twitter_data, youtube_data): how it ended and the kinds
\* of the sentences returned, in order.  A missing engagement_ratio reads
\* as twitter_to_youtube = 0.
GenerateInsights(twitter_data, youtube_data) ==
    IF \/ AnalyzeEngagement(twitter_data).raised # "none"
       \/ AnalyzeEngagement(youtube_data).raised # "none"
    THEN [raised |-> TRUE, value |-> <<>>]
    ELSE LET engagement_ratio == EngagementRatio(twitter_data, youtube_data)
             tw_to_yt == IF engagement_ratio = <<>> THEN Quotient(0, 1)
                         ELSE engagement_ratio[1].twitter_to_youtube
         IN [raised |-> FALSE,
             value |->
                PlatformInsights(twitter_data, "twitter", 10000, 5000)
                \o PlatformInsights(youtube_data, "youtube", 50000, 10000)
                \o (IF twitter_data # EmptyDict /\ youtube_data # EmptyDict
                    THEN IF Above2(tw_to_yt) THEN <<<<"focus", "twitter">>>>
                         ELSE IF BelowHalf(tw_to_yt) THEN <<<<"focus", "youtube">>>>
                         ELSE <<>>
                    ELSE <<>>)
                \o (IF twitter_data # EmptyDict
                       /\ AnalyzeAudienceDemographics(twitter_data).top_hashtags
                    THEN <<<<"twitter", "top_hashtag">>>> ELSE <<>>)]

\* The posts of the envelopes tried.
InsightTweets ==
    { [likes |-> 0],
      [likes |-> 30, retweets |-> 10, replies |-> 0],
      [likes |-> 150, retweets |-> 0, replies |-> 10, location |-> "Pune",
       timestamp |-> "2024-01-01T00:00:00Z", hashtags |-> <<"#a">>] }

InsightVideos ==
    { [views |-> 0, likes |-> 0, comments |-> 0],
      [views |-> 1000, likes |-> 40, comments |-> 0],
      [views |-> 1000, likes |-> 90, comments |-> 40] }

Envelope(platform, posts_in) ==
    [platform |-> platform, identifier |-> "u1", posts |-> posts_in]

InsightInputs(platform, samples) ==
    {EmptyDict, [platform |-> platform]}
      \cup {Envelope(platform, posts_in) :
              posts_in \in UNION {[1 .. n -> samples] : n \in 0 .. MaxInsightPosts}}

InsightsIdle ==
    /\ insights_twitter = EmptyDict
    /\ insights_youtube = EmptyDict
    /\ insights_call = [called |-> FALSE, raised |-> FALSE, value |-> <<>>]

InsightsInit ==
    /\ insights_twitter \in InsightInputs("Twitter", InsightTweets)
    /\ insights_youtube \in InsightInputs("YouTube", InsightVideos)
    /\ insights_call = [called |-> FALSE, raised |-> FALSE, value |-> <<>>]

CallGenerateInsights ==
    /\ ~insights_call.called
    /\ insights_call' =
          LET end == GenerateInsights(insights_twitter, insights_youtube)
          IN [called |-> TRUE, raised |-> end.raised, value |-> end.value]
    /\ UNCHANGED <<insights_twitter, insights_youtube>>

InsightsNext ==
    \/ CallGenerateInsights
          /\ UNCHANGED <<coreVars, collectVars, recoVars, webVars, calcVars, rtdVars,
                         srpVars, stream_threads, reportVars, analysis_data, analysis>>

AnalysisCallIdle ==
    /\ analysis_data = EmptyDict
    /\ analysis = [called |-> FALSE, raised |-> "none", value |-> EmptyDict]

\* The analyzer after construction: no method has been called.
AnalysisIdle == InsightsIdle /\ AnalysisCallIdle

\* The avg_engagement of an envelope, <<>> where analyze_engagement has none.
AvgOf(platform_data) ==
    LET end == AnalyzeEngagement(platform_data)
    IN IF end.raised = "none" /\ end.value # EmptyDict
       THEN <<end.value["avg_engagement"]>> ELSE <<>>

\* C22: the suggestion to focus on the microblogging platform is made only
\* if its average is more than twice the average of the video platform, the
\* one to focus on the video platform only if its average is more than twice
\* the microblogging average, and neither when the two averages are equal,
\* both being 0 included.
CrossPlatformSuggestion ==
    insights_call.called =>
        LET tw == AvgOf(insights_twitter)
            yt == AvgOf(insights_youtube)
            said == Range(insights_call.value)
        IN /\ <<"focus", "twitter">> \in said =>
                 tw # <<>> /\ yt # <<>> /\ tw[1] > 2 * yt[1]
           /\ <<"focus", "youtube">> \in said =>
                 tw # <<>> /\ yt # <<>> /\ yt[1] > 2 * tw[1]
           /\ (tw # <<>> /\ yt # <<>> /\ tw[1] = yt[1]) =>
                 (<<"focus", "twitter">> \notin said /\ <<"focus", "youtube">> \notin said)

\* ---------------------------------------------------------------------------
\* TrendDetector.add_hashtag: what one completed call leaves behind
\* ---------------------------------------------------------------------------

\* How often timestamp t stands in the list.
Occurrences(timestamps, t) == Cardinality({i \in DOMAIN timestamps : timestamps[i] = t})

\* A step in which add_hashtag completed for the normalized hashtag h.
AddCompleted(h) == added'[h] # added[h]

\* C23: after every completed add_hashtag the timestamp list of the
\* normalized hashtag holds exactly the recorded observations that are at
\* most 600 seconds older than the current clock, hashtag_counts of it is
\* the length of that list, and the lists and counts of all other hashtags
\* are as before.
PruneOnAdd ==
    [][\A h \in Hashtags :
          AddCompleted(h) =>
             /\ h \in DOMAIN hashtag_timestamps' /\ h \in DOMAIN hashtag_counts'
             /\ \A t \in TimePoints :
                   Occurrences(hashtag_timestamps'[h], t)
                     = IF now' - t <= 600 THEN added'[h][t] ELSE 0
             /\ Range(hashtag_timestamps'[h]) \subseteq TimePoints
             /\ hashtag_counts'[h] = Len(hashtag_timestamps'[h])
             /\ \A g \in Hashtags \ {h} :
                   /\ DictGet(hashtag_timestamps', g, <<>>) = DictGet(hashtag_timestamps, g, <<>>)
                   /\ DictGet(hashtag_counts', g, 0) = DictGet(hashtag_counts, g, 0)
                   /\ (g \in DOMAIN hashtag_timestamps') = (g \in DOMAIN hashtag_timestamps)]_vars

\* At 601 a call for "a" has dropped the observation made at 0 and kept the
\* one made at 601, while the list of "b" still holds its observation of 0.
PruneOnAddWitness ==
    /\ now = time_window + 1
    /\ added[<<"a">>][0] = 1
    /\ added[<<"a">>][time_window + 1] = 1
    /\ hashtag_timestamps[<<"a">>] = <<time_window + 1>>
    /\ hashtag_counts[<<"a">>] = 1
    /\ <<"b">> \in DOMAIN hashtag_timestamps
    /\ hashtag_timestamps[<<"b">>] = <<0>>
    /\ hashtag_counts[<<"b">>] = 1

\* ---------------------------------------------------------------------------
\* DataStorage.store_realtime_post: the lock around the database interaction
\* ---------------------------------------------------------------------------

MaxStoreCalls == 2     \* store_realtime_post calls of one thread

\* The statements between `with self.lock:` and the end of the block.
InsideLock == {"connect", "execute", "commit", "close"}

\* The posts the two stream workers hand over.
StoreSamples ==
    { [post_id |-> <<"p", 1>>, text |-> <<WordHello, WordTagA>>, timestamp |-> <<"iso", 1>>,
       likes |-> 10, retweets |-> 2, replies |-> 1, quotes |-> 1],
      [post_id |-> NonePy, text |-> <<WordTagA>>, timestamp |-> <<"iso", 4>>] }

NoStoreCall == [fault |-> "none", propagated |-> FALSE, changed |-> FALSE, ended |-> FALSE]

SrpIdle ==
    /\ store_lock = <<>>
    /\ spc = [w \in Workers |->
                 [at |-> "idle", post |-> <<>>, fault |-> "none", before |-> <<>>,
                  calls |-> 0, last |-> NoStoreCall]]

\* The part before the lock: platform, score and hashtags are computed.
SrpEnter(w) ==
    /\ spc[w].at = "idle"
    /\ spc[w].calls < MaxStoreCalls
    /\ \E post \in StoreSamples :
          spc' = [spc EXCEPT ![w] = [@ EXCEPT !.at = "acquire", !.post = <<post>>,
                                              !.fault = "none", !.calls = @ + 1]]
    /\ UNCHANGED <<store_lock, storeVars>>

\* with self.lock: the caller waits until the lock is free.
SrpAcquire(w) ==
    /\ spc[w].at = "acquire"
    /\ store_lock = <<>>
    /\ store_lock' = <<w>>
    /\ spc' = [spc EXCEPT ![w] = [@ EXCEPT !.at = "connect", !.before = realtime_posts]]
    /\ UNCHANGED storeVars

\* sqlite3.connect and conn.cursor(), before the try statement: an error
\* here leaves the with block, which releases the lock, and the method.
SrpConnect(w) ==
    /\ spc[w].at = "connect"
    /\ \E failed \in BOOLEAN :
          IF failed
          THEN /\ store_lock' = <<>>
               /\ spc' = [spc EXCEPT ![w] =
                             [@ EXCEPT !.at = "idle", !.fault = "connect",
                                       !.last = [fault |-> "connect", propagated |-> TRUE,
                                                 changed |-> FALSE, ended |-> TRUE]]]
          ELSE /\ spc' = [spc EXCEPT ![w] = [@ EXCEPT !.at = "execute"]]
               /\ UNCHANGED store_lock
    /\ UNCHANGED storeVars

\* cursor.execute inside the try: an sqlite3.Error (the NOT NULL constraint,
\* or any other) goes to the except clause.
SrpExecute(w) ==
    /\ spc[w].at = "execute"
    /\ \E failed \in BOOLEAN :
          LET row == RealtimeRow(WorkerPlatform(w), spc[w].post[1], db_time)
          IN spc' = [spc EXCEPT ![w] =
                        IF failed \/ ViolatesNotNull(row)
                        THEN [@ EXCEPT !.at = "close", !.fault = "execute"]
                        ELSE [@ EXCEPT !.at = "commit"]]
    /\ UNCHANGED <<store_lock, storeVars>>

\* conn.commit(): the row becomes part of the table, or an sqlite3.Error
\* goes to the except clause.
SrpCommit(w) ==
    /\ spc[w].at = "commit"
    /\ \E failed \in BOOLEAN :
          IF failed
          THEN /\ spc' = [spc EXCEPT ![w] = [@ EXCEPT !.at = "close", !.fault = "commit"]]
               /\ UNCHANGED realtime_posts
          ELSE /\ spc' = [spc EXCEPT ![w] = [@ EXCEPT !.at = "close"]]
               /\ realtime_posts' =
                     StoreRealtimePost(realtime_posts, WorkerPlatform(w), spc[w].post[1],
                                       db_time)
    /\ UNCHANGED <<store_lock, posts, user_preferences, db_time, rt_last, posts_last,
                   pref_calls, ppc, plocal>>

\* finally: conn.close(); the with block ends and releases the lock.
SrpClose(w) ==
    /\ spc[w].at = "close"
    /\ store_lock' = <<>>
    /\ spc' = [spc EXCEPT ![w] =
                  [@ EXCEPT !.at = "idle",
                            !.last = [fault |-> spc[w].fault, propagated |-> FALSE,
                                      changed |-> realtime_posts # spc[w].before,
                                      ended |-> TRUE]]]
    /\ UNCHANGED storeVars

SrpNext ==
    \/ \E w \in Workers : SrpEnter(w)
          /\ UNCHANGED <<trendVars, streamVars, alertVars, collectVars, recoVars, webVars,
                         calcVars, rtdVars, analysisVars, stream_threads,
                         reportVars>>
    \/ \E w \in Workers : SrpAcquire(w)
          /\ UNCHANGED <<trendVars, streamVars, alertVars, collectVars, recoVars, webVars,
                         calcVars, rtdVars, analysisVars, stream_threads,
                         reportVars>>
    \/ \E w \in Workers : SrpConnect(w)
          /\ UNCHANGED <<trendVars, streamVars, alertVars, collectVars, recoVars, webVars,
                         calcVars, rtdVars, analysisVars, stream_threads,
                         reportVars>>
    \/ \E w \in Workers : SrpExecute(w)
          /\ UNCHANGED <<trendVars, streamVars, alertVars, collectVars, recoVars, webVars,
                         calcVars, rtdVars, analysisVars, stream_threads,
                         reportVars>>
    \/ \E w \in Workers : SrpCommit(w)
          /\ UNCHANGED <<trendVars, streamVars, alertVars, collectVars, recoVars, webVars,
                         calcVars, rtdVars, analysisVars, stream_threads,
                         reportVars>>
    \/ \E w \in Workers : SrpClose(w)
          /\ UNCHANGED <<trendVars, streamVars, alertVars, collectVars, recoVars, webVars,
                         calcVars, rtdVars, analysisVars, stream_threads,
                         reportVars>>

\* At most one caller is between connect and close, and the lock is held
\* exactly while one is.
StoreLockExcludes ==
    /\ Cardinality({w \in Workers : spc[w].at \in InsideLock}) <= 1
    /\ \A w \in Workers : spc[w].at \in InsideLock <=> store_lock = <<w>>
    /\ (\A w \in Workers : spc[w].at \notin InsideLock) => store_lock = <<>>

\* C24: store_realtime_post calls on one DataStorage exclude each other over
\* the whole connect-insert-commit-close sequence, the lock is free again
\* after every way out of it, and a database error leaves the table as it
\* was and does not leave the method.
StoreLockDiscipline ==
    /\ StoreLockExcludes
    /\ \A w \in Workers :
          spc[w].last.fault # "none" =>
             (~spc[w].last.propagated /\ ~spc[w].last.changed)

\* The three storage reads of a refresh iteration.
StorageReads == {"recent_posts", "trending_hashtags", "high_engagement_posts"}

DashboardKeys ==
    {"twitter_engagement", "youtube_engagement", "trending_hashtags",
     "high_engagement_posts", "personal_recommendations", "personal_insights"}

\* C25: a refresh iteration in which one of the three storage reads raises
\* changes none of the six fields of dashboard_data and emits no
\* dashboard_update; dashboard_data always has exactly its six keys.
RefreshAllOrNothing ==
    /\ [](DOMAIN dashboard_data = DashboardKeys)
    /\ [][\A read \in StorageReads :
             RefreshIterationWith(read) =>
                /\ dashboard_data' = dashboard_data
                /\ emitted' = emitted
                /\ dpc'.raised]_vars

\* The loop is in the wait of its except clause, and nothing has written
\* dashboard_data or emitted anything yet, while the table has rows to show.
RefreshAllOrNothingWitness ==
    /\ dpc = [at |-> "sleep", raised |-> TRUE]
    /\ dashboard_writers = {}
    /\ dashboard_data = InitialDashboard
    /\ emitted.event = "none"
    /\ realtime_posts # <<>>

\* ---------------------------------------------------------------------------
\* RealTimeDataCollector: start_streaming and stop_streaming called repeatedly
\* ---------------------------------------------------------------------------

MaxStarts == 2         \* start_streaming calls in one behaviour

\* No thread has been started.
ThreadsIdle == stream_threads = <<>>

\* start_streaming(): sets the flag and starts one thread of each kind,
\* whatever threads there are already; the fields twitter_thread and
\* youtube_thread then name the new ones.
StartStreamingAgain ==
    /\ Len(stream_threads) < 2 * MaxStarts
    /\ running' = TRUE
    /\ stream_threads' = stream_threads
                           \o <<[kind |-> "twitter", at |-> "top", k |-> 0],
                                [kind |-> "youtube", at |-> "top", k |-> 0]>>
    /\ UNCHANGED <<wpc, searched, storeVars>>

\* stop_streaming(): clears the flag and nothing else.
StopStreamingAgain ==
    /\ running
    /\ running' = FALSE
    /\ UNCHANGED <<stream_threads, wpc, searched, storeVars>>

\* while self.running: of thread number i.
ThreadCheck(i) ==
    /\ stream_threads[i].at = "top"
    /\ stream_threads' =
          [stream_threads EXCEPT ![i] = IF running THEN [@ EXCEPT !.at = "keyword", !.k = 1]
                                        ELSE [@ EXCEPT !.at = "done", !.k = 0]]
    /\ UNCHANGED <<running, wpc, searched, storeVars>>

\* One pass of the for loop of thread number i: search, store, sleep.
ThreadKeyword(i) ==
    /\ stream_threads[i].at = "keyword"
    /\ LET kind == stream_threads[i].kind
           after == AfterKeyword(stream_threads[i].k)
       IN /\ stream_threads' =
                [stream_threads EXCEPT ![i] = [@ EXCEPT !.at = after.at, !.k = after.k]]
          /\ \E items \in SearchResults(kind) :
                realtime_posts' =
                   StoreStream(realtime_posts, WorkerPlatform(kind), items,
                               [n \in 1 .. Len(items) |-> db_time])
    /\ UNCHANGED <<running, wpc, searched, posts, user_preferences, db_time, rt_last,
                   posts_last, pref_calls, ppc, plocal>>

\* The sleep at the end of a cycle of thread number i returns.
ThreadSleep(i) ==
    /\ stream_threads[i].at = "sleep"
    /\ stream_threads' = [stream_threads EXCEPT ![i] = [@ EXCEPT !.at = "top"]]
    /\ UNCHANGED <<running, wpc, searched, storeVars>>

RestartNext ==
    \/ StartStreamingAgain /\ UNCHANGED <<trendVars, alertVars, collectVars, recoVars,
                                          webVars, calcVars, rtdVars, analysisVars, srpVars,
                         reportVars>>
    \/ StopStreamingAgain /\ UNCHANGED <<trendVars, alertVars, collectVars, recoVars,
                                         webVars, calcVars, rtdVars, analysisVars, srpVars,
                         reportVars>>
    \/ \E i \in DOMAIN stream_threads : ThreadCheck(i)
          /\ UNCHANGED <<trendVars, alertVars, collectVars, recoVars, webVars, calcVars,
                         rtdVars, analysisVars, srpVars,
                         reportVars>>
    \/ \E i \in DOMAIN stream_threads : ThreadKeyword(i)
          /\ UNCHANGED <<trendVars, alertVars, collectVars, recoVars, webVars, calcVars,
                         rtdVars, analysisVars, srpVars,
                         reportVars>>
    \/ \E i \in DOMAIN stream_threads : ThreadSleep(i)
          /\ UNCHANGED <<trendVars, alertVars, collectVars, recoVars, webVars, calcVars,
                         rtdVars, analysisVars, srpVars,
                         reportVars>>

\* The threads of a kind that are inside a cycle of their loop.
InCycle(kind) ==
    {i \in DOMAIN stream_threads :
        stream_threads[i].kind = kind /\ stream_threads[i].at \in {"keyword", "sleep"}}

\* C26: whatever sequence of start_streaming and stop_streaming calls is
\* made, at most one microblogging worker and at most one video worker are
\* executing cycles at any time.
OneWorkerPerKind ==
    \A kind \in Workers : Cardinality(InCycle(kind)) <= 1

\* ---------------------------------------------------------------------------
\* DataStorage.get_trending_hashtags as the trending report calls it
\* ---------------------------------------------------------------------------

MaxTrendRows == 3      \* rows of realtime_posts when the report is made

\* The texts of the stored posts: without a hashtag, with "#a", with "#A",
\* and with "#a" and "#B".
TrendTexts ==
    { <<WordHello>>, <<WordHello, WordTagA>>, <<<<"#", "A">>>>, <<WordTagA, WordTagB>> }

\* A table of microblogging rows with these texts, one post_id each.
TrendTable(texts) ==
    [i \in DOMAIN texts |->
        RealtimeRow("Twitter",
                    [post_id |-> <<"t", i>>, text |-> texts[i], timestamp |-> <<"iso", i>>],
                    101)]

TrendTables == {TrendTable(texts) : texts \in UNION {[1 .. n -> TrendTexts] : n \in 0 .. MaxTrendRows}}

\* The limits asked for: 1, the dashboard's 10 and the report's 20.
TrendLimits == {1, 10, 20}

TrendingIdle == trending_call = [called |-> FALSE, fresh |-> 0, limit |-> 0, result |-> <<>>]

\* One call get_trending_hashtags(hours, limit); the rows of the last `hours`
\* hours are the last `fresh` rows.
CallGetTrendingHashtags ==
    /\ ~trending_call.called
    /\ \E fresh \in 0 .. Len(realtime_posts), limit \in TrendLimits :
          trending_call' =
             [called |-> TRUE, fresh |-> fresh, limit |-> limit,
              result |-> StorageTrendingHashtags(realtime_posts, fresh, limit)]

TrendingReportNext ==
    \/ CallGetTrendingHashtags
          /\ UNCHANGED <<coreVars, collectVars, recoVars, webVars, calcVars, rtdVars,
                         analysisVars, srpVars, stream_threads, collect_call,
                         report_call>>

\* The rows of the window whose stored hashtag list contains the hashtag.
PostsMentioning(table, fresh, hashtag) ==
    {i \in (Len(table) - fresh + 1) .. Len(table) :
        /\ table[i].hashtags # Null
        /\ \E j \in DOMAIN table[i].hashtags[1].json :
              Strip(Lower(table[i].hashtags[1].json[j])) = hashtag}

\* C27: the count get_trending_hashtags reports for a hashtag is the number
\* of real-time posts of the window whose stored hashtag list contains it;
\* the list is in non-increasing order of count and has at most `limit`
\* entries.
TrendingCountsPosts ==
    trending_call.called =>
        LET result == trending_call.result
        IN /\ Len(result) <= trending_call.limit
           /\ \A i, j \in DOMAIN result : i <= j => result[i].count >= result[j].count
           /\ \A i \in DOMAIN result :
                 result[i].count
                   = Cardinality(PostsMentioning(realtime_posts, trending_call.fresh,
                                                 result[i].hashtag))

\* ---------------------------------------------------------------------------
\* collect_platform_data followed by DataStorage.store_posts
\* ---------------------------------------------------------------------------

MaxCollect == 2        \* the count handed to collect_platform_data

\* What the random module draws for one item: the number in its id and its
\* counters.
ItemDraws == [id : {1, 2}, likes : {0, 1}, other : {0, 2}]

DrawLists == UNION {[1 .. n -> ItemDraws] : n \in 0 .. MaxCollect}

\* TwitterDataCollector.get_posts_data(username, count): one post per draw.
GetPostsData(username, draws) ==
    [i \in DOMAIN draws |->
        [post_id |-> <<"tweet", draws[i].id>>,
         username |-> username,
         text |-> <<"Sample tweet", i>>,
         timestamp |-> <<"iso", i>>,
         likes |-> draws[i].likes,
         retweets |-> draws[i].other,
         replies |-> draws[i].other,
         hashtags |-> <<WordTagA, WordTagB>>,
         location |-> "London"]]

\* YouTubeDataCollector.get_video_data(channel_id, count): one video per
\* draw; its id is under 'video_id'.
GetVideoData(channel_id, draws) ==
    [i \in DOMAIN draws |->
        [video_id |-> <<"vid", draws[i].id>>,
         channel_id |-> channel_id,
         title |-> <<"Sample YouTube video", i>>,
         description |-> <<"Description for video", i>>,
         timestamp |-> <<"iso", i>>,
         views |-> 100 * draws[i].other,
         likes |-> draws[i].likes,
         comments |-> draws[i].other,
         dislikes |-> 0,
         duration |-> "1:10",
         tags |-> <<"socialmedia", "analytics">>,
         category |-> "Music",
         url |-> <<"video", draws[i].id>>]]

\* The platform arguments tried.
CollectPlatforms == {"twitter", "Twitter", "YouTube", "Reddit"}

\* collect_platform_data(platform, identifier, count) for the two collectors
\* of data_collector.py; the metrics are named by their collector.  Any other
\* platform but 'instagram' raises ValueError.
CollectPlatformData(platform, identifier, draws) ==
    IF PlatformLower(platform) = "twitter"
    THEN [raised |-> "none",
          value |-> [platform |-> "Twitter", identifier |-> identifier,
                     posts |-> GetPostsData(identifier, draws),
                     metrics |-> "user_metrics"]]
    ELSE IF PlatformLower(platform) = "youtube"
    THEN [raised |-> "none",
          value |-> [platform |-> "YouTube", identifier |-> identifier,
                     posts |-> GetVideoData(identifier, draws),
                     metrics |-> "channel_metrics"]]
    ELSE [raised |-> "ValueError", value |-> EmptyDict]

CollectIdle ==
    collect_call = [called |-> FALSE, platform |-> "", envelope |-> EmptyDict,
                    raised |-> "none"]

\* storage.store_posts(collect_platform_data(platform, identifier, count)).
CollectAndStore ==
    /\ ~collect_call.called
    /\ \E platform \in CollectPlatforms, identifier \in Identifiers, draws \in DrawLists :
          LET collected == CollectPlatformData(platform, identifier, draws)
              envelope == collected.value
              end == StorePosts(posts, envelope["platform"], envelope["identifier"],
                                envelope["posts"])
          IN IF collected.raised # "none"
             THEN /\ collect_call' = [called |-> TRUE, platform |-> platform,
                                      envelope |-> EmptyDict, raised |-> collected.raised]
                  /\ UNCHANGED <<posts, posts_last>>
             ELSE /\ collect_call' = [called |-> TRUE, platform |-> platform,
                                      envelope |-> envelope,
                                      raised |-> IF end.raised THEN "KeyError" ELSE "none"]
                  /\ posts' = end.table
                  /\ posts_last' = RecordStored(posts_last, envelope["platform"],
                                                envelope["identifier"], end.stored)
    /\ UNCHANGED <<realtime_posts, user_preferences, db_time, rt_last, pref_calls, ppc,
                   plocal>>

CollectStoreNext ==
    \/ CollectAndStore
          /\ UNCHANGED <<trendVars, streamVars, alertVars, collectVars, recoVars, webVars,
                         calcVars, rtdVars, analysisVars, srpVars, stream_threads,
                         trending_call, report_call>>

\* The id of an item of an envelope: 'post_id' of a post, 'video_id' of a video.
ItemId(item) == IF "post_id" \in DOMAIN item THEN item["post_id"] ELSE item["video_id"]

\* The last item of the envelope with this id.
LastItemWithId(items, id) ==
    items[CHOOSE i \in DOMAIN items :
              /\ ItemId(items[i]) = id
              /\ \A j \in DOMAIN items : ItemId(items[j]) = id => j <= i]

\* One row per distinct item id of the envelope, with the batch score.
StoredAsCollected(envelope) ==
    \A k \in DOMAIN envelope["posts"] :
        LET id == ItemId(envelope["posts"][k])
        IN /\ Cardinality(RowsWithPostId(posts, id)) = 1
           /\ \A i \in RowsWithPostId(posts, id) :
                 posts[i].engagement_score
                    = BatchScore(envelope["platform"],
                                 LastItemWithId(envelope["posts"], id))

\* C28: for the envelope collect_platform_data returns for the microblogging
\* platform and for the video platform, store_posts does not raise, and then
\* the posts table has one row for each distinct item id of the envelope,
\* with the batch engagement score of that platform.
CollectThenStore ==
    (collect_call.called /\ PlatformLower(collect_call.platform) \in {"twitter", "youtube"})
        => /\ collect_call.raised = "none"
           /\ StoredAsCollected(collect_call.envelope)


\* ---------------------------------------------------------------------------
\* ReportGenerator.generate_platform_report over what store_posts wrote
\* ---------------------------------------------------------------------------

MaxReportStores == 2   \* store_posts calls before the report

\* Items handed to store_posts: a tweet with retweets and replies, a tweet
\* with likes only, and a video.
ReportPosts ==
    { [post_id |-> <<"p", 1>>, text |-> <<WordHello, WordTagA>>,
       timestamp |-> "2024-01-01T00:00:00+00:00", likes |-> 3, retweets |-> 2,
       replies |-> 1, hashtags |-> <<WordTagA>>],
      [post_id |-> <<"p", 2>>, text |-> <<WordHello>>,
       timestamp |-> "2024-01-01T00:01:00Z", likes |-> 4],
      [post_id |-> <<"v", 1>>, title |-> <<WordHello>>,
       timestamp |-> "2024-01-01T00:00:00Z", views |-> 200, likes |-> 5,
       comments |-> 4, location |-> "Pune"] }

ReportBatches == UNION {[1 .. n -> ReportPosts] : n \in 1 .. MaxBatch}

\* The platforms reports are made for (report_generator.py calls it with
\* these two).
ReportPlatforms == {"Twitter", "YouTube"}

\* get_posts_by_platform(platform): SELECT * FROM posts WHERE platform = ?,
\* each row as a dict of its columns.  A row of the model is that dict
\* without 'id' and 'created_at', which the analyzer does not read.
GetPostsByPlatform(table, platform) ==
    LET Mine(row) == row.platform = platform
    IN  SelectSeq(table, Mine)

\* generate_platform_report(platform): the rows it read, how it ended, and of
\* the report the engagement_analysis and total_posts.  The demographics, the
\* peak times and the insights are computed from the same rows and are left
\* out.
GeneratePlatformReport(table, platform) ==
    LET rows == GetPostsByPlatform(table, platform)
        platform_data == [platform |-> platform, posts |-> rows, metrics |-> EmptyDict]
        engagement_analysis == AnalyzeEngagement(platform_data)
    IN  [rows |-> rows,
         raised |-> engagement_analysis.raised,
         value |-> IF engagement_analysis.raised # "none" THEN EmptyDict
                   ELSE [platform |-> platform,
                         engagement_analysis |-> engagement_analysis.value,
                         total_posts |-> Len(rows)]]

ReportCallIdle ==
    report_call = [stores |-> 0, called |-> FALSE, platform |-> "", rows |-> <<>>,
                   raised |-> "none", value |-> EmptyDict]

\* One store_posts call before the report is made.
StoreForReport ==
    /\ ~report_call.called
    /\ report_call.stores < MaxReportStores
    /\ \E platform \in ReportPlatforms, identifier \in Identifiers, batch \in ReportBatches :
          LET end == StorePosts(posts, platform, identifier, batch)
          IN  /\ posts' = end.table
              /\ posts_last' = RecordStored(posts_last, platform, identifier, end.stored)
    /\ report_call' = [report_call EXCEPT !.stores = @ + 1]
    /\ UNCHANGED <<realtime_posts, user_preferences, db_time, rt_last, pref_calls, ppc,
                   plocal>>

\* One call generate_platform_report(platform).
CallGeneratePlatformReport ==
    /\ ~report_call.called
    /\ \E platform \in ReportPlatforms :
          LET end == GeneratePlatformReport(posts, platform)
          IN  report_call' = [stores |-> report_call.stores, called |-> TRUE,
                              platform |-> platform, rows |-> end.rows,
                              raised |-> end.raised, value |-> end.value]
    /\ UNCHANGED storeVars

PlatformReportNext ==
    \/ StoreForReport
          /\ UNCHANGED <<trendVars, streamVars, alertVars, collectVars, recoVars, webVars,
                         calcVars, rtdVars, analysisVars, srpVars, stream_threads,
                         trending_call, collect_call>>
    \/ CallGeneratePlatformReport
          /\ UNCHANGED <<trendVars, streamVars, alertVars, collectVars, recoVars, webVars,
                         calcVars, rtdVars, analysisVars, srpVars, stream_threads,
                         trending_call, collect_call>>

\* The engagement_score column of rows.
StoredScores(rows) == [i \in DOMAIN rows |-> rows[i].engagement_score]

\* C29: for every row the report read, the engagement analyze_engagement
\* computes for it equals the engagement_score store_posts persisted, and the
\* report's avg_engagement is the mean of the stored engagement_score values
\* of the platform.
StoredScoreIsReportedScore ==
    report_call.called =>
        LET rows == report_call.rows
            platform == PlatformLower(report_call.platform)
        IN /\ report_call.raised = "none"
           /\ \A i \in DOMAIN rows :
                 AnalysisScore(platform, rows[i]) = rows[i].engagement_score
           /\ rows # <<>> =>
                 report_call.value["engagement_analysis"]["avg_engagement"]
                    = Round2(SumSeq(StoredScores(rows), Len(rows)), Len(rows))

\* ---------------------------------------------------------------------------
\* SocialMediaAnalyzer.analyze_engagement for any platform name
\* ---------------------------------------------------------------------------

MaxAnalysisPosts == 2  \* posts of the platform_data analysed

\* The posts analysed: of the third platform, a tweet, a video, and a post
\* with no counters.
AnalysisPosts ==
    { [post_id |-> <<"ig", 1>>, caption |-> <<WordHello>>,
       timestamp |-> "2024-01-01T00:00:00Z", likes |-> 7, comments |-> 2],
      [post_id |-> <<"p", 1>>, text |-> <<WordHello>>,
       timestamp |-> "2024-01-01T00:00:00+00:00", likes |-> 3, retweets |-> 2,
       replies |-> 1],
      [post_id |-> <<"v", 1>>, title |-> <<WordHello>>,
       timestamp |-> "2024-01-01T00:01:00Z", views |-> 200, likes |-> 5,
       comments |-> 4],
      [post_id |-> <<"p", 2>>, timestamp |-> "2024-01-01T00:00:00Z"] }

\* The platform names of the envelopes collect_platform_data returns, and
\* the one the streamer adds.
AnalysisPlatforms == {"Twitter", "YouTube", "Instagram", "Reddit"}

AnalysisInputs ==
    {[platform |-> platform, identifier |-> "u1", posts |-> posts_in,
      metrics |-> EmptyDict] :
        platform \in AnalysisPlatforms,
        posts_in \in UNION {[1 .. n -> AnalysisPosts] : n \in 0 .. MaxAnalysisPosts}}

\* The platform_data to analyse is at hand; nothing has been analysed.
AnalysisInit ==
    /\ analysis_data \in AnalysisInputs
    /\ analysis = [called |-> FALSE, raised |-> "none", value |-> EmptyDict]

\* One call analyze_engagement(platform_data).
CallAnalyzeEngagement ==
    /\ ~analysis.called
    /\ LET end == AnalyzeEngagement(analysis_data)
       IN  analysis' = [called |-> TRUE, raised |-> end.raised, value |-> end.value]
    /\ UNCHANGED <<analysis_data, insights_twitter, insights_youtube, insights_call>>

AnalysisNext ==
    \/ CallAnalyzeEngagement
          /\ UNCHANGED <<coreVars, collectVars, recoVars, webVars, calcVars, rtdVars,
                         srpVars, stream_threads, reportVars>>

\* The platform name is neither the microblogging nor the video platform.
OtherPlatform(platform_data) ==
    PlatformLower(platform_data["platform"]) \notin {"twitter", "youtube"}

\* C30: analyze_engagement never raises; for platform_data with a posts list
\* and a platform name other than the microblogging or video platform it
\* returns a mapping with total_posts = number of posts and engagement
\* figures of 0.
AnalyzeEngagementTotal ==
    analysis.called =>
        /\ analysis.raised = "none"
        /\ OtherPlatform(analysis_data) =>
              /\ analysis.value # EmptyDict
              /\ analysis.value["total_posts"] = Len(analysis_data["posts"])
              /\ analysis.value["avg_engagement"] = 0
              /\ analysis.value["max_engagement"] = 0
              /\ analysis.value["min_engagement"] = 0

\* The report generator and the calls around it before any call.
ReportIdle == TrendingIdle /\ CollectIdle /\ ReportCallIdle

\* The objects beside the server as constructed.
SideInit == RtdIdle /\ AnalysisIdle /\ SrpIdle /\ ThreadsIdle /\ ReportIdle

\* The parts outside the core as constructed.
ExtInit == CollectInit /\ RecoInit /\ WebInit /\ CalcInit /\ SideInit

\* The program after construction of its objects.
Init == TrendInit /\ StoreInit /\ StreamInit /\ AlertInit /\ ExtInit

\* The same, with the threads that call the TrendDetector not yet started.
InitTrendConc == TrendConcInit /\ StoreInit /\ StreamInit /\ AlertInit /\ ExtInit

\* The web server on a database that an earlier run has filled.
InitWeb == TrendInit /\ WebStoreInit /\ StreamInit /\ AlertInit /\ ExtInit

\* The same, with the threads that call update_user_preference not yet started.
InitPrefsConc == TrendInit /\ PrefsConcInit /\ StreamInit /\ AlertInit /\ ExtInit

(***************************************************************************)
(* Specifications: each runs one part of the program and leaves the other   *)
(* parts as constructed.                                                    *)
(***************************************************************************)
\* The TrendDetector with one caller and a clock.
SpecTrend ==
    /\ Init
    /\ [][TrendNext]_vars

\* The TrendDetector with concurrent callers.
SpecTrendConc ==
    /\ InitTrendConc
    /\ [][TrendConcNext]_vars

\* DataStorage.store_realtime_post, called sequentially.
SpecRealtimeStore ==
    /\ Init
    /\ [][RealtimeStoreNext]_vars

\* DataStorage.store_posts, called sequentially.
SpecPostsStore ==
    /\ Init
    /\ [][PostsStoreNext]_vars

\* DataStorage.update_user_preference, called sequentially.
SpecPrefs ==
    /\ Init
    /\ [][PrefsNext]_vars

\* DataStorage.update_user_preference, called from several threads.
SpecPrefsConc ==
    /\ InitPrefsConc
    /\ [][PrefsConcNext]_vars

\* The stream workers of RealTimeDataCollector with its storage.  The threads are
\* scheduled fairly, and a sleep or a search returns.
SpecStream ==
    /\ Init
    /\ [][StreamNext]_vars
    /\ \A w \in Workers : WF_vars(WorkerStep(w) /\ UNCHANGED <<trendVars, alertVars, extVars>>)

\* The RealTimeAnalyzer with its SocialMediaAnalyzer and TrendDetector.
SpecAlert ==
    /\ Init
    /\ [][AlertNext]_vars

\* The API collectors: construction from every configuration.
SpecCollect ==
    /\ Init
    /\ [][CollectNext]_vars

\* The API collectors: construction and the four fetch operations.
SpecFetch ==
    /\ Init
    /\ [][FetchNext]_vars

\* The RecommendationEngine and PersonalAnalytics over the storage.
SpecReco ==
    /\ Init
    /\ [][RecoNext]_vars

\* The web server: its background refresh and its socket handlers.
SpecDashboard ==
    /\ InitWeb
    /\ [][DashboardNext]_vars

\* The web server: its HTTP routes.
SpecRoutes ==
    /\ Init
    /\ [][RoutesNext]_vars

\* The background loops: every thread that can take a step eventually does.
SpecLoops ==
    /\ Init
    /\ [][LoopsNext]_vars
    /\ WF_vars(RefreshStep /\ UNCHANGED <<coreVars, collectVars, recoVars, calcVars, sideVars, wlast, httpVars>>)
    /\ \A w \in LoopWorkers :
          WF_vars(LoopWorkerStep(w)
                  /\ UNCHANGED <<trendVars, alertVars, collectVars, recoVars, calcVars, sideVars, dashVars,
                                 httpVars>>)

\* _calculate_percentiles called once on a list of scores.
InitPercentiles ==
    /\ TrendInit /\ StoreInit /\ StreamInit /\ AlertInit
    /\ CollectInit /\ RecoInit /\ WebInit
    /\ PercentilesInit /\ VelocityIdle /\ SideInit

SpecPercentiles == InitPercentiles /\ [][PercentilesNext]_vars

\* _calculate_engagement_velocity called once on a list of posts.
InitVelocity ==
    /\ TrendInit /\ StoreInit /\ StreamInit /\ AlertInit
    /\ CollectInit /\ RecoInit /\ WebInit
    /\ PercentilesIdle /\ VelocityInit /\ SideInit

SpecVelocity == InitVelocity /\ [][VelocityNext]_vars

\* update_with_post called on a RealTimeDashboard that has seen some posts.
InitRtd ==
    /\ TrendInit /\ StoreInit /\ StreamInit /\ AlertInit
    /\ CollectInit /\ RecoInit /\ WebInit /\ CalcInit
    /\ RtdInit /\ AnalysisIdle /\ SrpIdle /\ ThreadsIdle /\ ReportIdle

SpecRtd == InitRtd /\ [][RtdNext]_vars

\* generate_insights called once on two envelopes.
InitInsights ==
    /\ TrendInit /\ StoreInit /\ StreamInit /\ AlertInit
    /\ CollectInit /\ RecoInit /\ WebInit /\ CalcInit
    /\ RtdIdle /\ InsightsInit /\ AnalysisCallIdle /\ SrpIdle /\ ThreadsIdle /\ ReportIdle

SpecInsights == InitInsights /\ [][InsightsNext]_vars

\* The two stream workers calling store_realtime_post on the shared storage.
SpecStoreLock == Init /\ [][SrpNext]_vars

\* start_streaming and stop_streaming called any number of times.
SpecRestart == Init /\ [][RestartNext]_vars

\* get_trending_hashtags called once on a database with real-time rows.
InitTrendingReport ==
    /\ TrendInit /\ StreamInit /\ AlertInit /\ ExtInit
    /\ posts = <<>>
    /\ realtime_posts \in TrendTables
    /\ user_preferences = <<>>
    /\ db_time = 0
    /\ rt_last = EmptySeqDict
    /\ posts_last = EmptySeqDict
    /\ pref_calls = [triple \in Triples |-> [n |-> 0, last_used |-> 0]]
    /\ ppc = EmptyDict
    /\ plocal = EmptyDict

SpecTrendingReport == InitTrendingReport /\ [][TrendingReportNext]_vars

\* collect_platform_data and store_posts on an empty database.
SpecCollectStore == Init /\ [][CollectStoreNext]_vars

\* store_posts calls and then one platform report, on an empty database.
SpecPlatformReport == Init /\ [][PlatformReportNext]_vars

\* One analyze_engagement call on a platform_data at hand.
InitAnalysis ==
    /\ TrendInit /\ StoreInit /\ StreamInit /\ AlertInit
    /\ CollectInit /\ RecoInit /\ WebInit /\ CalcInit
    /\ RtdIdle /\ InsightsIdle /\ AnalysisInit /\ SrpIdle /\ ThreadsIdle /\ ReportIdle

SpecAnalysis == InitAnalysis /\ [][AnalysisNext]_vars

====
